---------------------------- MODULE Spec2Model ----------------------------
(***************************************************************************)
(* A model of the koi compiler front end (jesperkha/koi): the File line    *)
(* index, the scanner, the recursive-descent parser with panic mode, the   *)
(* AST printer, the semantic checker with its scope table, the IR builder  *)
(* with the TableReader, and the entry points Parse, ParseFile and         *)
(* GenerateIR that chain the stages.                                       *)
(*                                                                         *)
(* Source text is a sequence of one-character strings.  Offsets, rows and  *)
(* columns are 0-based as in the Go code; At(src, i) reads byte i.         *)
(* A Go run-time panic (slice out of range, explicit panic, nil            *)
(* dereference) is modelled by a "crashed" flag on the stage's state: the  *)
(* stage stops and nothing after it runs.                                  *)
(***************************************************************************)
EXTENDS Integers, Sequences, FiniteSets, TLC

(***************************************************************************)
(* Characters                                                              *)
(***************************************************************************)
NUL == "NUL"

At(src, i) == src[i + 1]

\* src[from:to] of Go: bytes from..to-1
Slice(src, from, to) == SubSeq(src, from + 1, to)

AlphaChars ==
    {"a","b","c","d","e","f","g","h","i","j","k","l","m","n","o","p","q","r",
     "s","t","u","v","w","x","y","z","A","B","C","D","E","F","G","H","I","J",
     "K","L","M","N","O","P","Q","R","S","T","U","V","W","X","Y","Z","_"}

NumChars == {"0","1","2","3","4","5","6","7","8","9"}

WhitespaceChars == {"\t", "\r", " "}

isAlpha(c) == c \in AlphaChars

isNum(c) == c \in NumChars

(***************************************************************************)
(* token package: keyword and symbol tables                                *)
(***************************************************************************)
Keywords ==
    [lex \in {<<"p","u","b">>, <<"t","r","u","e">>, <<"f","a","l","s","e">>,
              <<"r","e","t","u","r","n">>, <<"f","u","n","c">>, <<"i","f">>,
              <<"e","l","s","e">>, <<"f","o","r">>,
              <<"i","m","p","o","r","t">>, <<"p","a","c","k","a","g","e">>,
              <<"n","i","l">>, <<"b","y","t","e">>, <<"f","l","o","a","t">>,
              <<"v","o","i","d">>, <<"s","t","r","i","n","g">>,
              <<"i","n","t">>, <<"b","o","o","l">>} |->
        CASE lex = <<"p","u","b">> -> "PUB"
          [] lex = <<"t","r","u","e">> -> "TRUE"
          [] lex = <<"f","a","l","s","e">> -> "FALSE"
          [] lex = <<"r","e","t","u","r","n">> -> "RETURN"
          [] lex = <<"f","u","n","c">> -> "FUNC"
          [] lex = <<"i","f">> -> "IF"
          [] lex = <<"e","l","s","e">> -> "ELSE"
          [] lex = <<"f","o","r">> -> "FOR"
          [] lex = <<"i","m","p","o","r","t">> -> "IMPORT"
          [] lex = <<"p","a","c","k","a","g","e">> -> "PACKAGE"
          [] lex = <<"n","i","l">> -> "NIL"
          [] lex = <<"b","y","t","e">> -> "BYTE"
          [] lex = <<"f","l","o","a","t">> -> "FLOAT"
          [] lex = <<"v","o","i","d">> -> "VOID"
          [] lex = <<"s","t","r","i","n","g">> -> "STRING"
          [] lex = <<"i","n","t">> -> "INT"
          [] lex = <<"b","o","o","l">> -> "BOOL"]

SingleSymbols ==
    [c \in {"+","-","*","/",".",",",";",":","=",">","<","(",")","{","}","[",
            "]","&","|","%","!"} |->
        CASE c = "+" -> "PLUS" [] c = "-" -> "MINUS" [] c = "*" -> "STAR"
          [] c = "/" -> "SLASH" [] c = "." -> "DOT" [] c = "," -> "COMMA"
          [] c = ";" -> "SEMI" [] c = ":" -> "COLON" [] c = "=" -> "EQ"
          [] c = ">" -> "GREATER" [] c = "<" -> "LESS"
          [] c = "(" -> "LPAREN" [] c = ")" -> "RPAREN"
          [] c = "{" -> "LBRACE" [] c = "}" -> "RBRACE"
          [] c = "[" -> "LBRACK" [] c = "]" -> "RBRACK"
          [] c = "&" -> "AND" [] c = "|" -> "OR" [] c = "%" -> "PERCENT"
          [] c = "!" -> "NOT"]

DoubleSymbols ==
    [d \in {<<"|","|">>, <<">","=">>, <<"<","=">>, <<"&","&">>, <<"=","=">>,
            <<"!","=">>, <<"+","=">>, <<"-","=">>, <<"*","=">>, <<"/","=">>,
            <<":","=">>} |->
        CASE d = <<"|","|">> -> "OR_OR" [] d = <<">","=">> -> "GREATER_EQ"
          [] d = <<"<","=">> -> "LESS_EQ" [] d = <<"&","&">> -> "AND_AND"
          [] d = <<"=","=">> -> "EQ_EQ" [] d = <<"!","=">> -> "NOT_EQ"
          [] d = <<"+","=">> -> "PLUS_EQ" [] d = <<"-","=">> -> "MINUS_EQ"
          [] d = <<"*","=">> -> "MULT_EQ" [] d = <<"/","=">> -> "DIV_EQ"
          [] d = <<":","=">> -> "COLON_EQ"]

(***************************************************************************)
(* token.File: line index and Line(row)                                    *)
(***************************************************************************)
\* The loops that walk the source one byte at a time are given by their
\* result.  RunUntil is the index at which a loop that starts at from and
\* goes on to the end of src or the first byte in stops leaves off.
RunUntil(src, from, stops) ==
    IF from >= Len(src) THEN from
    ELSE CHOOSE i \in from..Len(src) :
            /\ i = Len(src) \/ At(src, i) \in stops
            /\ \A j \in from..(i - 1) : At(src, j) \notin stops

\* The same for a loop that goes on while the byte is in keep.
RunWhile(src, from, keep) ==
    IF from >= Len(src) THEN from
    ELSE CHOOSE i \in from..Len(src) :
            /\ i = Len(src) \/ At(src, i) \notin keep
            /\ \A j \in from..(i - 1) : At(src, j) \in keep

\* The elements of a set of integers in increasing order.
Ascending(S) ==
    [i \in 1..Cardinality(S) |->
        CHOOSE x \in S : Cardinality({y \in S : y < x}) = i - 1]

findEndOfLine(src, offset) ==
    IF offset >= Len(src) THEN Len(src) - 1
    ELSE RunUntil(src, offset, {"\n"}) - 1

\* getLines: a line starts at 0 and after every newline that is not the
\* last byte (i = findEndOfLine(src, i) + 2 while i < len(src)).
getLines(src) ==
    Ascending({i \in 0..(Len(src) - 1) :
                  i = 0 \/ At(src, i - 1) = "\n"})

\* File.Line: [ok |-> FALSE] stands for a run-time panic ("row out of
\* bounds", or the slice expression Src[offset:end] with offset > end).
Line(src, row) ==
    IF row >= Len(getLines(src)) THEN [ok |-> FALSE, str |-> <<>>]
    ELSE LET offset == getLines(src)[row + 1]
             end == findEndOfLine(src, offset)
         IN IF offset > end THEN [ok |-> FALSE, str |-> <<>>]
            ELSE [ok |-> TRUE, str |-> Slice(src, offset, end)]

(***************************************************************************)
(* util.ErrorHandler                                                       *)
(***************************************************************************)
\* Pretty renders one diagnostic and appends it.  strings.Repeat panics on a
\* negative count, so colEnd < colStart is a run-time panic.
PrettyPanics(colStart, colEnd) == colEnd - colStart < 0

Pretty(errs, line, lineStr, msg, colStart, colEnd) ==
    Append(errs, [msg |-> msg, line |-> line, lineStr |-> lineStr,
                  colStart |-> colStart, length |-> colEnd - colStart])

\* ErrorHandler.Error is errors.Join(errs...): nil when there are none.
\* fmt.Sprintf(format, args...): the format and its arguments.
Sprintf(f, args) == [fmt |-> f, args |-> args]

NilError == [kind |-> "nil"]

JoinErrors(errs) ==
    IF errs = <<>> THEN NilError ELSE [kind |-> "joinError", errs |-> errs]

(***************************************************************************)
(* scanner.Scanner                                                         *)
(***************************************************************************)
\* file: the *token.File the scanner was made for ("file": the one file of
\* a run; "nil": no file).
NewScanner(src) ==
    [file |-> "file", src |-> src, row |-> 0, col |-> 0, startCol |-> 0,
     pos |-> 0,
     base |-> 0, lineBegin |-> 0, NumErrors |-> 0, errors |-> <<>>,
     crashed |-> FALSE]

s_eof(s) == s.pos >= Len(s.src)

s_cur(s) == IF s_eof(s) THEN NUL ELSE At(s.src, s.pos)

s_peek(s) == IF s.pos + 1 >= Len(s.src) THEN NUL ELSE At(s.src, s.pos + 1)

s_next(s) ==
    IF s_eof(s) THEN s
    ELSE IF s_cur(s) = "\n"
         THEN [s EXCEPT !.row = s.row + 1, !.col = 0, !.startCol = 0,
                        !.base = s.pos + 1, !.lineBegin = s.pos + 1,
                        !.pos = s.pos + 1]
         ELSE [s EXCEPT !.col = s.col + 1, !.pos = s.pos + 1]

interval(s) == Slice(s.src, s.base, s.pos)

tokenPos(s) ==
    [Col |-> s.startCol, Row |-> s.row, Offset |-> s.base, File |-> s.file,
     LineBegin |-> s.lineBegin]

tokenEndPos(s) ==
    [Col |-> s.col, Row |-> s.row, Offset |-> s.pos, File |-> s.file,
     LineBegin |-> s.lineBegin]

ZeroPos ==
    [Col |-> 0, Row |-> 0, Offset |-> 0, File |-> "nil", LineBegin |-> 0]

MkToken(typ, lexeme, pos, endPos, invalid, float, eof) ==
    [Type |-> typ, Lexeme |-> lexeme, Pos |-> pos, EndPos |-> endPos,
     Invalid |-> invalid, Float |-> float, Eof |-> eof]

eofToken(s) ==
    MkToken("EOF", <<>>, tokenPos(s), tokenEndPos(s), FALSE, FALSE, TRUE)

\* Scanner.err: renders the current row with File.Line, then counts.
s_err(s, msg) ==
    IF s.crashed THEN s
    ELSE LET l == Line(s.src, s.row)
         IN IF ~l.ok \/ PrettyPanics(s.startCol, s.col)
            THEN [s EXCEPT !.crashed = TRUE]
            ELSE [s EXCEPT
                    !.errors = Pretty(s.errors, s.row + 1, l.str, msg,
                                      s.startCol, s.col),
                    !.NumErrors = s.NumErrors + 1]

\* next() called n times over bytes none of which is a newline.
s_nextN(s, n) == [s EXCEPT !.col = s.col + n, !.pos = s.pos + n]

\* The loop of scanWhitespace: base and startCol follow pos and col.
skipWhitespace(s) ==
    IF RunWhile(s.src, s.pos, WhitespaceChars) = s.pos THEN s
    ELSE [s EXCEPT
            !.pos = RunWhile(s.src, s.pos, WhitespaceChars),
            !.col = s.col + RunWhile(s.src, s.pos, WhitespaceChars) - s.pos,
            !.base = RunWhile(s.src, s.pos, WhitespaceChars),
            !.startCol = s.col + RunWhile(s.src, s.pos, WhitespaceChars) - s.pos]

\* The loop of scanComment.
skipToNewline(s) == s_nextN(s, RunUntil(s.src, s.pos, {"\n"}) - s.pos)

\* The loop of scanIdentifier.
skipAlnum(s) == s_nextN(s, RunWhile(s.src, s.pos, AlphaChars \cup NumChars) - s.pos)

\* The digit loop of scanNumber; returns the scanner and the dot count.
skipNumber(s, dots) ==
    [s |-> s_nextN(s, RunWhile(s.src, s.pos, NumChars \cup {"."}) - s.pos),
     dots |-> dots + Cardinality(
                 {i \in s.pos..(RunWhile(s.src, s.pos, NumChars \cup {"."}) - 1) :
                     At(s.src, i) = "."})]

\* The body loop of scanString and scanByteString for quote character q;
\* returns the scanner, whether the end quote was found, and the number of
\* characters between the quotes.
skipQuoted(s, q, length) ==
    LET e == RunUntil(s.src, s.pos, {q, "\n"})
        closed == e < Len(s.src) /\ At(s.src, e) = q
    IN [s |-> s_nextN(s, IF closed THEN e + 1 - s.pos ELSE e - s.pos),
        closed |-> closed, length |-> length + e - s.pos]

scanIllegal(s) ==
    LET s1 == s_err(s_next(s), Sprintf("illegal token", <<>>))
    IN [s |-> s1,
        tok |-> MkToken("ILLEGAL", interval(s1), tokenPos(s1),
                        tokenEndPos(s1), TRUE, FALSE, FALSE)]

scanSymbol(s) ==
    IF <<s_cur(s), s_peek(s)>> \in DOMAIN DoubleSymbols
    THEN LET s1 == s_next(s_next(s))
         IN [s |-> s1,
             tok |-> MkToken(DoubleSymbols[<<s_cur(s), s_peek(s)>>],
                             interval(s1), tokenPos(s1), tokenEndPos(s1),
                             FALSE, FALSE, FALSE)]
    ELSE IF s_cur(s) \in DOMAIN SingleSymbols
    THEN LET s1 == s_next(s)
         IN [s |-> s1,
             tok |-> MkToken(SingleSymbols[s_cur(s)], interval(s1),
                             tokenPos(s1), tokenEndPos(s1),
                             FALSE, FALSE, FALSE)]
    ELSE scanIllegal(s)

scanByteString(s) ==
    IF s_cur(s) # "'" THEN scanSymbol(s)
    ELSE LET r == skipQuoted(s_next(s), "'", 0)
             s1 == IF ~r.closed
                   THEN s_err(r.s, Sprintf("byte literals must have a terminating quote on the same line", <<>>))
                   ELSE r.s
             s2 == IF r.length # 1
                   THEN s_err(s1, Sprintf("byte literals must have exactly one character", <<>>))
                   ELSE s1
         IN [s |-> s2,
             tok |-> MkToken("BYTE_LIT", interval(s2), tokenPos(s2),
                             tokenEndPos(s2), ~r.closed \/ r.length # 1,
                             FALSE, FALSE)]

scanString(s) ==
    IF s_cur(s) # "\"" THEN scanByteString(s)
    ELSE LET r == skipQuoted(s_next(s), "\"", 0)
             s1 == IF ~r.closed
                   THEN s_err(r.s, Sprintf("string literals must have a terminating quote on the same line", <<>>))
                   ELSE r.s
         IN [s |-> s1,
             tok |-> MkToken("STRING_LIT", interval(s1), tokenPos(s1),
                             tokenEndPos(s1), ~r.closed, FALSE, FALSE)]

\* scanNumber marking every number with a decimal point as invalid.
scanNumber_AnyDotInvalid(s) ==
    IF ~isNum(s_cur(s)) THEN scanString(s)
    ELSE LET r == skipNumber(s, 0)
             s1 == IF r.dots > 0
                   THEN s_err(r.s, Sprintf("number literal can have at most one decimal point", <<>>))
                   ELSE r.s
         IN [s |-> s1,
             tok |-> MkToken(IF r.dots > 0 THEN "FLOAT_LIT" ELSE "INT_LIT",
                             interval(s1), tokenPos(s1), tokenEndPos(s1),
                             r.dots > 0, r.dots > 0, FALSE)]

scanNumber(s) ==
    IF ~isNum(s_cur(s)) THEN scanString(s)
    ELSE LET r == skipNumber(s, 0)
             s1 == IF r.dots > 1
                   THEN s_err(r.s, Sprintf("number literal can have at most one decimal point", <<>>))
                   ELSE r.s
         IN [s |-> s1,
             tok |-> MkToken(IF r.dots > 0 THEN "FLOAT_LIT" ELSE "INT_LIT",
                             interval(s1), tokenPos(s1), tokenEndPos(s1),
                             r.dots > 1, r.dots > 0, FALSE)]

scanIdentifier(s) ==
    IF ~isAlpha(s_cur(s)) THEN scanNumber(s)
    ELSE LET s1 == skipAlnum(s)
             str == interval(s1)
         IN [s |-> s1,
             tok |-> MkToken(IF str \in DOMAIN Keywords THEN Keywords[str]
                             ELSE "IDENT",
                             str, tokenPos(s1), tokenEndPos(s1),
                             FALSE, FALSE, FALSE)]

RECURSIVE scanWhitespace(_)
scanComment(s) ==
    IF s_cur(s) # "/" \/ s_peek(s) # "/" THEN scanIdentifier(s)
    ELSE scanWhitespace(s_next(skipToNewline(s)))

\* scanNewline that takes the end position after it has moved on.
scanNewline_EndAfterNext(s) ==
    IF s_cur(s) = "\n"
    THEN [s |-> s_next(s),
          tok |-> MkToken("NEWLINE", <<"N","E","W","L","I","N","E">>,
                          tokenPos(s), tokenEndPos(s_next(s)),
                          FALSE, FALSE, FALSE)]
    ELSE scanComment(s)

scanNewline(s) ==
    IF s_cur(s) = "\n"
    THEN [s |-> s_next(s),
          tok |-> MkToken("NEWLINE", <<"N","E","W","L","I","N","E">>,
                          tokenPos(s),
                          [tokenEndPos(s) EXCEPT !.Col = s.col + 1,
                                                 !.Offset = s.pos + 1],
                          FALSE, FALSE, FALSE)]
    ELSE scanComment(s)

scanWhitespace(s) ==
    LET s1 == skipWhitespace(s)
    IN IF s_eof(s1) THEN [s |-> s1, tok |-> eofToken(s1)]
       ELSE scanNewline(s1)

\* Scan that goes one byte further each time it is called at the end.
Scan_NextAtEof(s) ==
    IF s_eof(s) THEN [s |-> s_nextN(s, 1), tok |-> eofToken(s)]
    ELSE LET r == scanWhitespace(s)
         IN [s |-> [r.s EXCEPT !.base = r.s.pos, !.startCol = r.s.col],
             tok |-> r.tok]

\* Scan: one token per call; afterwards base and startCol are moved up.
Scan(s) ==
    IF s_eof(s) THEN [s |-> s, tok |-> eofToken(s)]
    ELSE LET r == scanWhitespace(s)
         IN [s |-> [r.s EXCEPT !.base = r.s.pos, !.startCol = r.s.col],
             tok |-> r.tok]

(***************************************************************************)
(* ast package: nodes.  Nil is the nil pointer / nil interface.            *)
(***************************************************************************)
Nil == [kind |-> "nil"]

ZeroToken == MkToken("ILLEGAL", <<>>, ZeroPos, ZeroPos, FALSE, FALSE, FALSE)

TypeKindToName(kind) ==
    CASE kind = "INT" -> <<"i","n","t">>
      [] kind = "FLOAT" -> <<"f","l","o","a","t">>
      [] kind = "STRING" -> <<"s","t","r","i","n","g">>
      [] kind = "BYTE" -> <<"b","y","t","e">>
      [] kind = "VOID" -> <<"v","o","i","d">>
      [] kind = "BOOL" -> <<"b","o","o","l">>

\* TokenToTypeKind panics ("token type without kind") outside these cases.
TokenHasTypeKind(typ) ==
    typ \in {"STRING", "STRING_LIT", "BOOL", "TRUE", "FALSE", "BYTE",
             "BYTE_LIT", "FLOAT", "FLOAT_LIT", "INT", "INT_LIT", "VOID"}

TokenToTypeKind(typ) ==
    CASE typ \in {"STRING", "STRING_LIT"} -> "STRING"
      [] typ \in {"BOOL", "TRUE", "FALSE"} -> "BOOL"
      [] typ \in {"BYTE", "BYTE_LIT"} -> "BYTE"
      [] typ \in {"FLOAT", "FLOAT_LIT"} -> "FLOAT"
      [] typ \in {"INT", "INT_LIT"} -> "INT"
      [] typ = "VOID" -> "VOID"

(***************************************************************************)
(* parser.Parser                                                           *)
(***************************************************************************)
NewParser(src, toks) ==
    [src |-> src, toks |-> toks, pos |-> 0, panicMode |-> FALSE, base |-> 0,
     NumErrors |-> 0, errors |-> <<>>, crashed |-> FALSE, loops |-> <<>>]

SyntheticEof == MkToken("EOF", <<>>, ZeroPos, ZeroPos, FALSE, FALSE, TRUE)

p_eof(p) == p.pos >= Len(p.toks)

p_cur(p) == IF p_eof(p) THEN SyntheticEof ELSE p.toks[p.pos + 1]

match(p, t) == p_cur(p).Type = t

matchMany(p, types) == p_cur(p).Type \in types

p_next(p) == [p EXCEPT !.pos = p.pos + 1]

\* loops: the iterations of the parser's inner loops begun so far, in order,
\* each with the loop ("block", "params", "args", "call"), the position of
\* the parser when the iteration began, and whether it was in panic mode.
Iter(p, loop) ==
    [p EXCEPT !.loops = Append(@, [loop |-> loop, pos |-> p.pos,
                                   panic |-> p.panicMode])]

eofOrPanic(p) == p_eof(p) \/ p.panicMode

\* prev indexes toks[pos-1]; that is out of range once pos > len(toks).
prevPanics(p) == p.pos # 0 /\ p.pos - 1 >= Len(p.toks)

p_prev(p) == IF p.pos = 0 \/ prevPanics(p) THEN SyntheticEof ELSE p.toks[p.pos]

\* Enter panic mode.
p_panic(p) == [p EXCEPT !.panicMode = TRUE, !.base = p.pos]

\* The index at which a loop "for !p.eof() && !p.matchMany(types)" that
\* calls next() leaves pos.
SeekEnd(p, types) ==
    IF p_eof(p) THEN p.pos
    ELSE CHOOSE i \in p.pos..Len(p.toks) :
            /\ i = Len(p.toks) \/ p.toks[i + 1].Type \in types
            /\ \A j \in p.pos..(i - 1) : p.toks[j + 1].Type \notin types

seekStatement(p) ==
    [p EXCEPT !.pos = SeekEnd(p, {"IF", "FUNC", "FOR", "RETURN"})]

\* Recover from panic mode (defined by the parser, called from nowhere).
p_recover(p) ==
    seekStatement([p EXCEPT !.panicMode = FALSE, !.pos = p.base])

\* errFromTo without its "if p.panicMode { return }".
errFromTo_NoPanicGuard(p, from, to, msg) ==
    IF p.crashed THEN p
    ELSE LET l == Line(p.src, from.Pos.Row)
         IN IF ~l.ok \/ PrettyPanics(from.Pos.Col, to.EndPos.Col)
            THEN [p EXCEPT !.crashed = TRUE]
            ELSE LET q == [p EXCEPT
                             !.errors = Pretty(p.errors, from.Pos.Row + 1,
                                               l.str, msg, from.Pos.Col,
                                               to.EndPos.Col)]
                 IN [p_panic(q) EXCEPT !.NumErrors = p.NumErrors + 1]

\* errFromTo without its NumErrors++.
errFromTo_NoCount(p, from, to, msg) ==
    IF p.crashed THEN p
    ELSE IF p.panicMode THEN p
    ELSE LET l == Line(p.src, from.Pos.Row)
         IN IF ~l.ok \/ PrettyPanics(from.Pos.Col, to.EndPos.Col)
            THEN [p EXCEPT !.crashed = TRUE]
            ELSE p_panic([p EXCEPT
                            !.errors = Pretty(p.errors, from.Pos.Row + 1,
                                              l.str, msg, from.Pos.Col,
                                              to.EndPos.Col)])

RECURSIVE Parser(_, _)
errFromTo(p, from, to, msg) ==
    IF p.crashed THEN p
    ELSE IF p.panicMode THEN p
    ELSE LET l == Line(p.src, from.Pos.Row)
         IN IF ~l.ok \/ PrettyPanics(from.Pos.Col, to.EndPos.Col)
            THEN [p EXCEPT !.crashed = TRUE]
            ELSE LET q == [p EXCEPT
                             !.errors = Pretty(p.errors, from.Pos.Row + 1,
                                               l.str, msg, from.Pos.Col,
                                               to.EndPos.Col)]
                 IN [p_panic(q) EXCEPT !.NumErrors = p.NumErrors + 1]

p_err(p, msg) == Parser("errFromTo", <<p, p_cur(p), p_cur(p), msg>>)

\* errFromTo(from, p.prev(), ...): the argument p.prev() is evaluated before
\* the call, so its index panic happens in panic mode as well.
errFromToPrev(p, from, msg) ==
    IF p.crashed THEN p
    ELSE IF prevPanics(p) THEN [p EXCEPT !.crashed = TRUE]
    ELSE Parser("errFromTo", <<p, from, p_prev(p), msg>>)

expect(p, typ) ==
    IF ~match(p, typ)
    THEN LET q == Parser("p_err", <<p, Sprintf("expected %s", <<typ>>)>>) IN [p |-> q, tok |-> p_cur(q)]
    ELSE [p |-> p_next(p), tok |-> p_cur(p)]

gotoNewline(p) == [p EXCEPT !.pos = SeekEnd(p, {"NEWLINE"})]

TypeTokens == {"STRING", "VOID", "INT", "FLOAT", "BYTE", "BOOL"}

LiteralTokens ==
    {"INT_LIT", "FLOAT_LIT", "STRING_LIT", "TRUE", "FALSE", "NIL", "BYTE_LIT"}

parseType(p) ==
    IF p.panicMode THEN [p |-> p, node |-> Nil]
    ELSE IF match(p, "NEWLINE")
         THEN [p |-> Parser("p_err", <<p, Sprintf("expected type", <<>>)>>), node |-> Nil]
    ELSE IF matchMany(p, TypeTokens)
         THEN [p |-> p_next(p),
               node |-> [kind |-> "PrimitiveType", T |-> p_cur(p),
                         Kind |-> TokenToTypeKind(p_cur(p).Type)]]
    ELSE [p |-> Parser("errFromTo", <<p, p_cur(p), p_cur(p), Sprintf("invalid type", <<>>)>>),
          node |-> Nil]

parseLiteral(p) ==
    IF match(p, "IDENT")
    THEN [p |-> p_next(p),
          node |-> [kind |-> "Ident", Name |-> p_cur(p).Lexeme,
                    T |-> p_cur(p)]]
    ELSE IF ~matchMany(p, LiteralTokens)
    THEN [p |-> Parser("errFromToPrev", <<gotoNewline(p), p_cur(p), Sprintf("invalid expression", <<>>)>>),
          node |-> Nil]
    ELSE [p |-> p_next(p),
          node |-> [kind |-> "Literal", T |-> p_cur(p),
                    Value |-> p_cur(p).Lexeme]]

parseGroup(p) == parseLiteral(p)

RECURSIVE parseExpr(_)
RECURSIVE parseArgs(_, _)
RECURSIVE parseCallLoop(_, _)
RECURSIVE parseBlock(_)
RECURSIVE parseBlockLoop(_, _)

\* The argument loop of parseCall: for { expr; append; if !COMMA break; next }
parseArgs(p, args) ==
    LET r == Parser("parseExpr", <<Iter(p, "args")>>)
    IN IF p.crashed THEN [p |-> p, args |-> args]
       ELSE IF ~match(r.p, "COMMA")
            THEN [p |-> r.p, args |-> Append(args, r.node)]
       ELSE Parser("parseArgs", <<p_next(r.p), Append(args, r.node)>>)

\* The chained-call loop leaving with the Call of an empty argument list.
parseCallLoop_ReturnOnEmpty(p, callee) ==
    IF p.crashed \/ ~match(p, "LPAREN") THEN [p |-> p, node |-> callee]
    ELSE LET lparen == p_cur(p)
             p1 == p_next(Iter(p, "call"))
         IN IF match(p1, "RPAREN")
            THEN [p |-> p_next(p1),
                  node |-> [kind |-> "Call", Callee |-> callee,
                            LParen |-> lparen, Args |-> <<>>,
                            RParen |-> p_cur(p1)]]
            ELSE LET r == Parser("parseArgs", <<p1, <<>>>>)
                     a == IF ~match(r.p, "RPAREN")
                          THEN [p |-> Parser("p_err", <<r.p, Sprintf("expected ) after argument list", <<>>)>>),
                                args |-> r.args]
                          ELSE r
                 IN Parser("parseCallLoop", <<p_next(a.p),
                          [kind |-> "Call", Callee |-> callee,
                           LParen |-> lparen, Args |-> a.args,
                           RParen |-> p_cur(a.p)]>>)

\* The chained-call loop of parseCall: for p.match(LPAREN) { ... }
parseCallLoop(p, callee) ==
    IF p.crashed \/ ~match(p, "LPAREN") THEN [p |-> p, node |-> callee]
    ELSE LET lparen == p_cur(p)
             p1 == p_next(Iter(p, "call"))
             a == IF match(p1, "RPAREN") THEN [p |-> p1, args |-> <<>>]
                  ELSE LET r == Parser("parseArgs", <<p1, <<>>>>)
                       IN IF ~match(r.p, "RPAREN")
                          THEN [p |-> Parser("p_err", <<r.p, Sprintf("expected ) after argument list", <<>>)>>),
                                args |-> r.args]
                          ELSE r
         IN Parser("parseCallLoop", <<p_next(a.p),
                          [kind |-> "Call", Callee |-> callee,
                           LParen |-> lparen, Args |-> a.args,
                           RParen |-> p_cur(a.p)]>>)

parseCall(p) ==
    LET r == parseGroup(p) IN Parser("parseCallLoop", <<r.p, r.node>>)

parseUnary(p) == parseCall(p)

parseFactor(p) == parseUnary(p)

parseTerm(p) == parseFactor(p)

parseComparison(p) == parseTerm(p)

parseEquality(p) == parseComparison(p)

parseExpr(p) ==
    IF matchMany(p, {"NEWLINE", "RBRACE"}) THEN [p |-> p, node |-> Nil]
    ELSE parseEquality(p)

parseReturn(p) ==
    LET ret == p_cur(p)
        p1 == p_next(p)
    IN IF match(p1, "NEWLINE")
       THEN [p |-> p_next(p1),
             node |-> [kind |-> "Return", Ret |-> ret, E |-> Nil]]
       ELSE LET r == Parser("parseExpr", <<p1>>)
            IN [p |-> r.p,
                node |-> [kind |-> "Return", Ret |-> ret, E |-> r.node]]

parseStmt(p) ==
    IF p.panicMode THEN [p |-> p, node |-> Nil]
    ELSE IF match(p, "RETURN") THEN Parser("parseReturn", <<p>>)
    ELSE IF match(p, "LBRACE") THEN Parser("parseBlock", <<p>>)
    ELSE LET r == Parser("parseExpr", <<p>>)
         IN [p |-> r.p, node |-> [kind |-> "ExprStmt", E |-> r.node]]

\* The statement loop of parseBlock.
parseBlockLoop(p, stmts) ==
    IF p.crashed \/ eofOrPanic(p) \/ match(p, "RBRACE")
    THEN [p |-> p, stmts |-> stmts]
    ELSE IF match(p, "NEWLINE")
         THEN Parser("parseBlockLoop", <<p_next(Iter(p, "block")), stmts>>)
    ELSE LET r == Parser("parseStmt", <<Iter(p, "block")>>)
         IN IF ~matchMany(r.p, {"NEWLINE", "RBRACE"})
            THEN Parser("parseBlockLoop", <<
                     Parser("errFromToPrev", <<gotoNewline(r.p), p_cur(r.p),
                                   Sprintf("expected end of statement", <<>>)>>),
                     stmts>>)
            ELSE Parser("parseBlockLoop", <<r.p, Append(stmts, r.node)>>)

parseBlock(p) ==
    IF p.panicMode THEN [p |-> p, node |-> Nil]
    ELSE LET l == Parser("expect", <<p, "LBRACE">>)
             b == Parser("parseBlockLoop", <<l.p, <<>>>>)
             r == Parser("expect", <<b.p, "RBRACE">>)
         IN [p |-> r.p,
             node |-> [kind |-> "Block", LBrace |-> l.tok,
                       Stmts |-> b.stmts, RBrace |-> r.tok,
                       Empty |-> Len(b.stmts) = 0]]

\* The field loop of parseNamedTuple.
RECURSIVE parseFields(_, _)
parseFields(p, fields) ==
    IF p.crashed \/ eofOrPanic(p) THEN [p |-> p, fields |-> fields]
    ELSE LET n == Parser("expect", <<Iter(p, "params"), "IDENT">>)
             t == Parser("parseType", <<n.p>>)
             fs == Append(fields, [Name |-> n.tok, Type |-> t.node])
         IN IF match(t.p, "RPAREN") THEN [p |-> t.p, fields |-> fs]
            ELSE Parser("parseFields", <<Parser("expect", <<t.p, "COMMA">>).p, fs>>)

parseNamedTuple(p) ==
    IF p.panicMode THEN [p |-> p, node |-> Nil]
    ELSE LET l == Parser("expect", <<p, "LPAREN">>)
         IN IF match(l.p, "RPAREN")
            THEN [p |-> p_next(l.p),
                  node |-> [kind |-> "NamedTuple", Empty |-> TRUE,
                            LParen |-> l.tok, Fields |-> <<>>,
                            RParen |-> p_cur(l.p)]]
            ELSE LET f == Parser("parseFields", <<l.p, <<>>>>)
                 IN [p |-> p_next(f.p),
                     node |-> [kind |-> "NamedTuple", Empty |-> FALSE,
                               LParen |-> ZeroToken, Fields |-> f.fields,
                               RParen |-> ZeroToken]]

\* parseFunc returning at once in panic mode, as parseBlock does.
parseFunc_PanicGuard(p) ==
    IF p.panicMode THEN [p |-> p, node |-> Nil]
    ELSE LET public == match(p, "PUB")
             p1 == IF public THEN p_next(p) ELSE p
             p2 == p_next(p1)
             n == Parser("expect", <<p2, "IDENT">>)
             t == Parser("parseNamedTuple", <<n.p>>)
             p3 == IF match(t.p, "LBRACE") THEN Parser("p_err", <<t.p, Sprintf("expected return type", <<>>)>>)
                   ELSE t.p
             ty == Parser("parseType", <<p3>>)
             blk == Parser("parseBlock", <<ty.p>>)
         IN [p |-> blk.p,
             node |-> [kind |-> "Func", Public |-> public, Name |-> n.tok,
                       Params |-> t.node, RetType |-> ty.node,
                       Block |-> blk.node]]

parseFunc(p) ==
    LET public == match(p, "PUB")
        p1 == IF public THEN p_next(p) ELSE p
        p2 == p_next(p1)
        n == Parser("expect", <<p2, "IDENT">>)
        t == Parser("parseNamedTuple", <<n.p>>)
        p3 == IF match(t.p, "LBRACE") THEN Parser("p_err", <<t.p, Sprintf("expected return type", <<>>)>>)
              ELSE t.p
        ty == Parser("parseType", <<p3>>)
        b == Parser("parseBlock", <<ty.p>>)
    IN [p |-> b.p,
        node |-> [kind |-> "Func", Public |-> public, Name |-> n.tok,
                  Params |-> t.node, RetType |-> ty.node, Block |-> b.node]]

\* One iteration of the declaration loop of Parser.Parse.  done is TRUE when
\* the loop is left (EOF token, unknown top level statement, or a panic).
ParseIteration(p, nodes) ==
    IF match(p, "EOF") THEN [p |-> p, nodes |-> nodes, done |-> TRUE]
    ELSE IF match(p, "NEWLINE")
         THEN [p |-> p_next(p), nodes |-> nodes, done |-> FALSE]
    ELSE IF matchMany(p, {"FUNC", "PUB"})
         THEN LET r == Parser("parseFunc", <<p>>)
              IN [p |-> r.p, nodes |-> Append(nodes, r.node),
                  done |-> r.p.crashed]
    ELSE [p |-> Parser("p_err", <<p, Sprintf("unknown top level statement", <<>>)>>), nodes |-> nodes,
          done |-> TRUE]

\* The methods of Parser by name: Parser(m, a) applies method m to the
\* arguments a.
Parser(m, a) ==
    CASE m = "errFromTo" -> errFromTo(a[1], a[2], a[3], a[4])
      [] m = "p_err" -> p_err(a[1], a[2])
      [] m = "errFromToPrev" -> errFromToPrev(a[1], a[2], a[3])
      [] m = "expect" -> expect(a[1], a[2])
      [] m = "parseType" -> parseType(a[1])
      [] m = "parseArgs" -> parseArgs(a[1], a[2])
      [] m = "parseCallLoop" -> parseCallLoop(a[1], a[2])
      [] m = "parseExpr" -> parseExpr(a[1])
      [] m = "parseReturn" -> parseReturn(a[1])
      [] m = "parseStmt" -> parseStmt(a[1])
      [] m = "parseBlockLoop" -> parseBlockLoop(a[1], a[2])
      [] m = "parseBlock" -> parseBlock(a[1])
      [] m = "parseFields" -> parseFields(a[1], a[2])
      [] m = "parseNamedTuple" -> parseNamedTuple(a[1])
      [] m = "parseFunc" -> parseFunc(a[1])
      [] m = "ParseIteration" -> ParseIteration(a[1], a[2])

(***************************************************************************)
(* ast: node positions                                                     *)
(***************************************************************************)
IsNil(n) == n.kind = "nil"

NodePos(n) ==
    CASE n.kind = "Func" -> n.Name.Pos
      [] n.kind = "Block" -> n.LBrace.Pos
      [] n.kind = "Return" -> n.Ret.Pos
      [] n.kind = "Ident" -> n.T.Pos
      [] n.kind = "Literal" -> n.T.Pos
      [] n.kind = "PrimitiveType" -> n.T.Pos

NodeEnd(n) ==
    CASE n.kind = "Func" -> n.Name.EndPos
      [] n.kind = "Block" -> n.LBrace.EndPos
      [] n.kind = "Return" ->
            IF IsNil(n.E) THEN n.Ret.EndPos
            ELSE IF n.E.kind = "Ident" THEN n.E.T.Pos ELSE n.E.T.EndPos
      [] n.kind = "Ident" -> n.T.Pos
      [] n.kind = "Literal" -> n.T.EndPos
      [] n.kind = "PrimitiveType" -> n.T.EndPos

\* PrimitiveType.String of the ast package: the lexeme of the type token.
AstTypeString(n) == n.T.Lexeme

(***************************************************************************)
(* types: Type, Scope, SemanticTable                                       *)
(***************************************************************************)
\* types.PrimitiveType{kind}; String() is ast.TypeKindToName(kind).
PrimType(kind) == [kind |-> "PrimitiveType", k |-> kind]

TypeString(t) == TypeKindToName(t.k)

\* The Underlying() of an older Primitive: byte is an int underneath.
UnderlyingString(t) == IF t.k = "BYTE" THEN TypeKindToName("INT") ELSE TypeString(t)

\* TypeEquals over the underlying types.
TypeEquals_Underlying(a, b) == UnderlyingString(a) = UnderlyingString(b)

TypeEquals(a, b) == TypeString(a) = TypeString(b)

voidType == PrimType("VOID")

NoScope == 0

newScope(tbl, parent) ==
    [parent |-> parent, children |-> <<>>, symbols |-> <<>>,
     ret |-> IF parent # NoScope THEN tbl.scopes[parent].ret ELSE voidType,
     hasReturned |-> FALSE]

\* calls: the scope calls made on the table so far, in order (PushScope and
\* PopScope of the checker, Push and Pop of the TableReader).
NewSemanticTable ==
    [scopes |-> <<newScope([scopes |-> <<>>], NoScope)>>, globalScope |-> 1,
     currentScope |-> 1, scopeMap |-> <<>>, calls |-> <<>>]

\* Scope.Symbol: look the name up in scope sc and then its parents; a hit
\* increments the symbol's RefCount.
RECURSIVE ScopeSymbol(_, _, _)
ScopeSymbol(tbl, sc, name) ==
    IF name \in DOMAIN tbl.scopes[sc].symbols
    THEN [ok |-> TRUE,
          tbl |-> [tbl EXCEPT !.scopes[sc].symbols[name].RefCount = @ + 1],
          sym |-> [tbl.scopes[sc].symbols[name] EXCEPT !.RefCount = @ + 1]]
    ELSE IF tbl.scopes[sc].parent # NoScope
         THEN ScopeSymbol(tbl, tbl.scopes[sc].parent, name)
    ELSE [ok |-> FALSE, tbl |-> tbl, sym |-> Nil]

\* SemanticTable.Symbol
TableSymbol(tbl, name) == ScopeSymbol(tbl, tbl.currentScope, name)

\* Scope.Declare through SemanticTable.Declare: overrides an existing entry.
Declare(tbl, sym) ==
    LET sc == tbl.currentScope
        old == tbl.scopes[sc].symbols
    IN [tbl EXCEPT !.scopes[sc].symbols =
            [n \in DOMAIN old \cup {sym.Name} |->
                IF n = sym.Name THEN [sym EXCEPT !.Scope = sc] ELSE old[n]]]

\* The map key of a block is the *ast.Block pointer; the offset of its left
\* brace identifies the node (-1: the nil pointer).
BlockKey(block) == IF IsNil(block) THEN -1 ELSE block.LBrace.Pos.Offset

PushScope(tbl, block) ==
    LET id == Len(tbl.scopes) + 1
        cur == tbl.currentScope
        withScope == [tbl EXCEPT !.scopes = Append(@, newScope(tbl, cur))]
    IN [withScope EXCEPT
          !.scopeMap = [k \in DOMAIN tbl.scopeMap \cup {BlockKey(block)} |->
                           IF k = BlockKey(block) THEN id ELSE tbl.scopeMap[k]],
          !.scopes[cur].children = Append(@, id),
          !.currentScope = id,
          !.calls = Append(@, "PushScope")]

PopScope(tbl) ==
    [tbl EXCEPT !.currentScope = tbl.scopes[tbl.currentScope].parent,
                !.calls = Append(@, "PopScope")]

SetReturnType(tbl, typ) == [tbl EXCEPT !.scopes[tbl.currentScope].ret = typ]

ReturnType(tbl) == tbl.scopes[tbl.currentScope].ret

\* MarkReturned that marks every scope, the enclosing ones with it.
MarkReturned_Propagate(tbl) ==
    [tbl EXCEPT !.scopes =
        [i \in DOMAIN tbl.scopes |->
            [tbl.scopes[i] EXCEPT !.hasReturned = TRUE]]]

MarkReturned(tbl) ==
    [tbl EXCEPT !.scopes[tbl.currentScope].hasReturned = TRUE]

HasReturned(tbl) == tbl.scopes[tbl.currentScope].hasReturned

(***************************************************************************)
(* types.Checker                                                           *)
(***************************************************************************)
\* returns: one entry per VisitReturn call (the return type in force, the
\* expression and the type it evaluated to, and NumErrors before and after).
NewChecker(src) ==
    [src |-> src, table |-> NewSemanticTable, NumErrors |-> 0, eh |-> <<>>,
     crashed |-> FALSE, returns |-> <<>>]

Crash(c) == [c EXCEPT !.crashed = TRUE]

\* Checker.err(node, format, args...)
RECURSIVE Checker(_, _)
c_err(c, node, msg) ==
    IF c.crashed THEN c
    ELSE LET l == Line(c.src, NodePos(node).Row)
         IN IF ~l.ok \/ PrettyPanics(NodePos(node).Col, NodeEnd(node).Col)
            THEN Crash(c)
            ELSE [c EXCEPT
                    !.eh = Pretty(c.eh, NodePos(node).Row + 1, l.str, msg,
                                  NodePos(node).Col, NodeEnd(node).Col),
                    !.NumErrors = c.NumErrors + 1]

MainName == <<"m","a","i","n">>

\* visitMain as it would be if the first broken rule ended the checks.
visitMain_FirstRuleOnly(c, node) ==
    IF IsNil(node.Params) \/ IsNil(node.RetType) THEN Crash(c)
    ELSE IF Len(node.Params.Fields) # 0
         THEN Checker("c_err", <<c, node, Sprintf("main function cannot have parameters", <<>>)>>)
    ELSE IF AstTypeString(node.RetType) # <<"i","n","t">>
         THEN Checker("c_err", <<c, node, Sprintf("main function must return int type", <<>>)>>)
    ELSE IF ~node.Public
         THEN Checker("c_err", <<c, node, Sprintf("main function must be public", <<>>)>>)
    ELSE c

visitMain(c, node) ==
    LET c1 == IF Len(node.Params.Fields) # 0
              THEN Checker("c_err", <<c, node, Sprintf("main function cannot have parameters", <<>>)>>)
              ELSE c
        c2 == IF AstTypeString(node.RetType) # <<"i","n","t">>
              THEN Checker("c_err", <<c1, node, Sprintf("main function must return int type", <<>>)>>)
              ELSE c1
    IN IF IsNil(node.Params) \/ IsNil(node.RetType) THEN Crash(c)
       ELSE IF ~node.Public
            THEN Checker("c_err", <<c2, node, Sprintf("main function must be public", <<>>)>>)
       ELSE c2

\* visitType panics on anything but *ast.PrimitiveType.
visitTypePanics(node) == node.kind # "PrimitiveType"

visitType(node) == PrimType(node.Kind)

evalLiteral(c, node) ==
    IF ~TokenHasTypeKind(node.T.Type) THEN [c |-> Crash(c), typ |-> Nil]
    ELSE [c |-> c, typ |-> PrimType(TokenToTypeKind(node.T.Type))]

evalIdent(c, node) ==
    LET r == TableSymbol(c.table, node.Name)
        c1 == [c EXCEPT !.table = r.tbl]
    IN IF r.ok
       THEN IF r.sym.Kind # "VarSymbol" /\ r.sym.Kind # "ConstSymbol"
            THEN [c |-> Checker("c_err", <<c1, node, Sprintf("cannot use symbol as identifier", <<>>)>>),
                  typ |-> Nil]
            ELSE [c |-> c1, typ |-> r.sym.Type]
       ELSE [c |-> Checker("c_err", <<c1, node, Sprintf("%s is undefined", <<node.Name>>)>>),
             typ |-> Nil]

\* evalExpr panics ("unhandled expression type") on any other node.
evalExpr(c, node) ==
    IF node.kind = "Literal" THEN Checker("evalLiteral", <<c, node>>)
    ELSE IF node.kind = "Ident" THEN Checker("evalIdent", <<c, node>>)
    ELSE [c |-> Crash(c), typ |-> Nil]

VisitReturn(c, node) ==
    LET retType == ReturnType(c.table)
        c1 == [c EXCEPT !.table = MarkReturned(c.table)]
        r == Checker("evalExpr", <<c1, node.E>>)
        c2 == IF IsNil(node.E)
              THEN IF ~TypeEquals(voidType, retType)
                   THEN Checker("c_err", <<c1, node, Sprintf("expected return type %s", <<TypeString(retType)>>)>>)
                   ELSE c1
              ELSE IF ~IsNil(r.typ) /\ ~r.c.crashed /\ ~TypeEquals(r.typ, retType)
                   THEN Checker("c_err", <<r.c, node.E,
                              Sprintf("expected return type %s, got %s",
                                      <<TypeString(retType), TypeString(r.typ)>>)>>)
                   ELSE r.c
    IN IF c2.crashed THEN c2
       ELSE [c2 EXCEPT !.returns =
                Append(@, [at |-> node.Ret.Pos.Offset, ret |-> retType,
                           E |-> node.E,
                           typ |-> IF IsNil(node.E) THEN Nil ELSE r.typ,
                           before |-> c.NumErrors, after |-> c2.NumErrors])]

\* The handler for expression statements is not part of the checker source
\* at hand: the statement is passed over.
VisitExprStmt(c, node) == c

RECURSIVE VisitStmts(_, _, _)
VisitBlock(c, node) ==
    LET c1 == [c EXCEPT !.table = PushScope(c.table, node)]
        c2 == Checker("VisitStmts", <<c1, node.Stmts, 1>>)
    IN IF c2.crashed THEN c2 ELSE [c2 EXCEPT !.table = PopScope(c2.table)]

\* for _, stmt := range node.Stmts { stmt.Accept(c) }
VisitStmts(c, stmts, i) ==
    IF c.crashed \/ i > Len(stmts) THEN c
    ELSE LET stmt == stmts[i]
         IN Checker("VisitStmts", <<
                CASE stmt.kind = "Return" -> Checker("VisitReturn", <<c, stmt>>)
                  [] stmt.kind = "Block" -> Checker("VisitBlock", <<c, stmt>>)
                  [] stmt.kind = "ExprStmt" -> Checker("VisitExprStmt", <<c, stmt>>)
                  [] OTHER -> Crash(c),
                stmts, i + 1>>)

visitBlockWithoutScope(c, node) ==
    IF IsNil(node) THEN Crash(c) ELSE Checker("VisitStmts", <<c, node.Stmts, 1>>)

\* Declare all parameters as local variables.
RECURSIVE declareParams(_, _, _)
declareParams(c, fields, i) ==
    IF c.crashed \/ i > Len(fields) THEN c
    ELSE IF visitTypePanics(fields[i].Type) THEN Crash(c)
    ELSE Checker("declareParams", <<
             [c EXCEPT !.table =
                 Declare(c.table,
                         [Name |-> fields[i].Name.Lexeme, Kind |-> "VarSymbol",
                          Pos |-> fields[i].Name.Pos, RefCount |-> 0,
                          Exported |-> FALSE, Scope |-> NoScope,
                          Type |-> visitType(fields[i].Type)])],
             fields, i + 1>>)

\* The part of VisitFunc after the redeclaration check.
VisitFuncBody(c, node) ==
    IF visitTypePanics(node.RetType) THEN Crash(c)
    ELSE LET retType == visitType(node.RetType)
             funcSymbol == [Name |-> node.Name.Lexeme,
                            Exported |-> node.Public, Kind |-> "FuncSymbol",
                            Pos |-> NodePos(node), Type |-> retType,
                            RefCount |-> 0, Scope |-> NoScope]
             c1 == [c EXCEPT !.table =
                       SetReturnType(PushScope(Declare(c.table, funcSymbol),
                                               node.Block), retType)]
             c2 == IF IsNil(node.Params) THEN Crash(c1)
                   ELSE Checker("declareParams", <<c1, node.Params.Fields, 1>>)
             c3 == IF c2.crashed THEN c2
                   ELSE Checker("visitBlockWithoutScope", <<c2, node.Block>>)
             c4 == IF c3.crashed THEN c3
                   ELSE IF ~HasReturned(c3.table) /\ ~TypeEquals(retType, voidType)
                        THEN Checker("c_err", <<c3, node, Sprintf("function never returns", <<>>)>>)
                   ELSE c3
         IN IF c4.crashed THEN c4
            ELSE [c4 EXCEPT !.table = PopScope(c4.table)]

\* VisitFunc without the return after the redeclaration diagnostic.
VisitFunc_NoEarlyReturn(c, node) ==
    LET name == node.Name.Lexeme
        c1 == IF name = MainName THEN Checker("visitMain", <<c, node>>) ELSE c
        f == TableSymbol(c1.table, name)
        c2 == [c1 EXCEPT !.table = f.tbl]
    IN IF c1.crashed THEN c1
       ELSE IF f.ok
            THEN Checker("VisitFuncBody", <<
                     Checker("c_err", <<c2, node,
                           Sprintf("function %s already declared on line %d",
                                   <<name, f.sym.Pos.Row + 1>>)>>),
                     node>>)
       ELSE Checker("VisitFuncBody", <<c2, node>>)

VisitFunc(c, node) ==
    LET name == node.Name.Lexeme
        c1 == IF name = MainName THEN Checker("visitMain", <<c, node>>) ELSE c
        f == TableSymbol(c1.table, name)
        c2 == [c1 EXCEPT !.table = f.tbl]
    IN IF c1.crashed THEN c1
       ELSE IF f.ok
            THEN Checker("c_err", <<c2, node,
                       Sprintf("function %s already declared on line %d",
                               <<name, f.sym.Pos.Row + 1>>)>>)
       ELSE Checker("VisitFuncBody", <<c2, node>>)

\* The methods of Checker by name: Checker(m, a) applies method m to the
\* arguments a.
Checker(m, a) ==
    CASE m = "c_err" -> c_err(a[1], a[2], a[3])
      [] m = "visitMain" -> visitMain(a[1], a[2])
      [] m = "evalLiteral" -> evalLiteral(a[1], a[2])
      [] m = "evalIdent" -> evalIdent(a[1], a[2])
      [] m = "evalExpr" -> evalExpr(a[1], a[2])
      [] m = "VisitReturn" -> VisitReturn(a[1], a[2])
      [] m = "VisitExprStmt" -> VisitExprStmt(a[1], a[2])
      [] m = "VisitBlock" -> VisitBlock(a[1], a[2])
      [] m = "VisitStmts" -> VisitStmts(a[1], a[2], a[3])
      [] m = "visitBlockWithoutScope" -> visitBlockWithoutScope(a[1], a[2])
      [] m = "declareParams" -> declareParams(a[1], a[2], a[3])
      [] m = "VisitFuncBody" -> VisitFuncBody(a[1], a[2])
      [] m = "VisitFunc" -> VisitFunc(a[1], a[2])

(***************************************************************************)
(* types.TableReader and ir.Builder                                        *)
(***************************************************************************)
\* TableReader.Get: SemanticTable.Symbol, a miss panics.
Get(tbl, name) ==
    LET r == TableSymbol(tbl, name)
    IN [panics |-> ~r.ok, tbl |-> r.tbl, sym |-> r.sym]

\* TableReader.Push: the scope the checker mapped the block to becomes the
\* current one; a block without a scope panics.
Push(tbl, block) ==
    IF BlockKey(block) \notin DOMAIN tbl.scopeMap
    THEN [panics |-> TRUE, tbl |-> tbl]
    ELSE [panics |-> FALSE,
          tbl |-> [tbl EXCEPT !.currentScope = tbl.scopeMap[BlockKey(block)],
                              !.calls = Append(@, "Push")]]

Pop(tbl) ==
    [tbl EXCEPT !.currentScope = tbl.scopes[tbl.currentScope].parent,
                !.calls = Append(@, "Pop")]

\* ir.Value and ir.Instruction with every field at its zero value.
ZeroValue == [ID |-> 0, Type |-> "Literal", Value |-> <<>>]

ZeroInstruction ==
    [Op |-> "NOP", Name |-> <<>>, Public |-> FALSE, RetType |-> Nil,
     Dest |-> ZeroValue, Value |-> ZeroValue]

\* strings.Trim(str, cutset): without the leading and trailing characters
\* that are in cutset.
Trim(str, cutset) ==
    LET keep == {i \in 1..Len(str) : str[i] \notin cutset}
    IN IF keep = {} THEN <<>>
       ELSE SubSeq(str, CHOOSE i \in keep : \A j \in keep : i <= j,
                        CHOOSE i \in keep : \A j \in keep : j <= i)

\* fatal: log.Fatal ended the process. gets: one entry per TableReader.Get
\* call (the name, and the table before and after the call).
NewBuilder(tree, reader) ==
    [tree |-> tree, tr |-> reader, ir |-> <<>>, ctr |-> 0, curIdx |-> 0,
     eh |-> <<>>, crashed |-> FALSE, fatal |-> FALSE, gets |-> <<>>]

b_Crash(b) == [b EXCEPT !.crashed = TRUE]

\* log.Fatal
b_Fatal(b) == [b EXCEPT !.fatal = TRUE]

b_Stopped(b) == b.crashed \/ b.fatal

\* idx that starts again from zero in every function.
b_idx_PerFunction(b) ==
    LET inFunc == Cardinality({i \in 1..Len(b.ir) :
                     /\ b.ir[i].Op = "RET"
                     /\ \A j \in i..Len(b.ir) : b.ir[j].Op # "FUNC"})
    IN [b |-> [b EXCEPT !.ctr = inFunc + 1], prev |-> inFunc]

\* Builder.idx: the next available index.
b_idx(b) == [b |-> [b EXCEPT !.ctr = b.ctr + 1], prev |-> b.ctr]

b_setIdx(b, idx) == [b EXCEPT !.curIdx = idx]

RECURSIVE Builder(_, _)
b_VisitLiteral(b, node) ==
    IF ~TokenHasTypeKind(node.T.Type) THEN b_Crash(b)
    ELSE LET kind == TokenToTypeKind(node.T.Type)
             op == CASE kind = "INT" -> "STORE_INT64"
                     [] kind = "FLOAT" -> "STORE_FLOAT64"
                     [] kind = "STRING" -> "STORE_STR"
                     [] kind = "BOOL" -> "STORE_BOOL"
                     [] OTHER -> "NOP"
             value == IF kind = "STRING" THEN Trim(node.Value, {"\""})
                      ELSE node.Value
         IN IF kind \notin {"INT", "FLOAT", "STRING", "BOOL"} THEN b_Crash(b)
            ELSE [b EXCEPT !.ir = Append(@,
                    [ZeroInstruction EXCEPT
                       !.Op = op,
                       !.Dest = [ZeroValue EXCEPT !.ID = b.curIdx],
                       !.Value = [ZeroValue EXCEPT !.Type = "Literal",
                                                  !.Value = value]])]

b_VisitIdent(b, node) == b

b_VisitCall(b, node) == b

\* The handler for expression statements is not part of the builder source
\* at hand: the statement is passed over.
b_VisitExprStmt(b, node) == b

\* node.E.Accept(b)
b_AcceptExpr(b, e) ==
    CASE e.kind = "Literal" -> Builder("VisitLiteral", <<b, e>>)
      [] e.kind = "Ident" -> Builder("VisitIdent", <<b, e>>)
      [] e.kind = "Call" -> Builder("VisitCall", <<b, e>>)
      [] OTHER -> b_Crash(b)

b_VisitReturn(b, node) ==
    IF IsNil(node.E) THEN b_Fatal(b)
    ELSE LET result == b_idx(b)
             b1 == Builder("AcceptExpr", <<b_setIdx(result.b, result.prev), node.E>>)
         IN IF b_Stopped(b1) THEN b1
            ELSE [b1 EXCEPT !.ir = Append(@,
                    [ZeroInstruction EXCEPT
                       !.Op = "RET",
                       !.Value = [ZeroValue EXCEPT !.Type = "Variable",
                                                  !.ID = result.prev]])]

\* VisitBlock without the Pop after the statements.
b_VisitBlock_NoPop(b, node) ==
    LET pushed == Push(b.tr, node)
    IN IF IsNil(node) \/ pushed.panics THEN b_Crash(b)
       ELSE Builder("Stmts", <<[b EXCEPT !.tr = pushed.tbl], node.Stmts, 1>>)

b_VisitBlock(b, node) ==
    LET pushed == Push(b.tr, node)
        b1 == Builder("Stmts", <<[b EXCEPT !.tr = pushed.tbl], node.Stmts, 1>>)
    IN IF IsNil(node) \/ pushed.panics THEN b_Crash(b)
       ELSE IF b_Stopped(b1) THEN b1
       ELSE [b1 EXCEPT !.tr = Pop(b1.tr)]

\* for _, stmt := range node.Stmts { stmt.Accept(b) }
b_Stmts(b, stmts, i) ==
    IF b_Stopped(b) \/ i > Len(stmts) THEN b
    ELSE LET stmt == stmts[i]
         IN Builder("Stmts", <<
                CASE stmt.kind = "Return" -> Builder("VisitReturn", <<b, stmt>>)
                  [] stmt.kind = "Block" -> Builder("VisitBlock", <<b, stmt>>)
                  [] stmt.kind = "ExprStmt" -> Builder("VisitExprStmt", <<b, stmt>>)
                  [] OTHER -> b_Crash(b),
                stmts, i + 1>>)

b_VisitFunc(b, node) ==
    LET funcName == node.Name.Lexeme
        got == Get(b.tr, funcName)
        b1 == [b EXCEPT
                 !.tr = got.tbl,
                 !.gets = Append(@, [name |-> funcName, before |-> b.tr,
                                     after |-> got.tbl]),
                 !.ir = Append(@, [ZeroInstruction EXCEPT
                                     !.Op = "FUNC", !.Name = funcName,
                                     !.Public = node.Public,
                                     !.RetType = got.sym.Type])]
    IN IF got.panics \/ IsNil(node.Params) THEN b_Crash(b)
       ELSE IF Len(node.Params.Fields) > 0 THEN b_Fatal(b1)
       ELSE Builder("VisitBlock", <<b1, node.Block>>)

\* The methods of Builder by name.
Builder(m, a) ==
    CASE m = "VisitLiteral" -> b_VisitLiteral(a[1], a[2])
      [] m = "VisitIdent" -> b_VisitIdent(a[1], a[2])
      [] m = "VisitCall" -> b_VisitCall(a[1], a[2])
      [] m = "VisitExprStmt" -> b_VisitExprStmt(a[1], a[2])
      [] m = "AcceptExpr" -> b_AcceptExpr(a[1], a[2])
      [] m = "VisitReturn" -> b_VisitReturn(a[1], a[2])
      [] m = "VisitBlock" -> b_VisitBlock(a[1], a[2])
      [] m = "Stmts" -> b_Stmts(a[1], a[2], a[3])
      [] m = "VisitFunc" -> b_VisitFunc(a[1], a[2])

(***************************************************************************)
(* ast.String: the debug visitor                                           *)
(***************************************************************************)
newDebugVisitor == [sb |-> <<>>, indentLevel |-> 0, indented |-> FALSE,
                    crashed |-> FALSE]

RECURSIVE Repeat(_, _)
Repeat(str, n) == IF n <= 0 THEN <<>> ELSE str \o Repeat(str, n - 1)

IndentUnit == <<" ", " ", " ", " ">>

\* debugVisitor.write with the format already expanded to str.
d_write(d, str) ==
    IF d.indentLevel # 0 /\ ~d.indented
    THEN [d EXCEPT !.sb = @ \o Repeat(IndentUnit, d.indentLevel) \o str,
                   !.indented = TRUE]
    ELSE [d EXCEPT !.sb = @ \o str]

\* writeln without the line break.
d_writeln_NoNewline(d, str) == [d_write(d, str) EXCEPT !.indented = FALSE]

d_writeln(d, str) == [d_write(d, str \o <<"\n">>) EXCEPT !.indented = FALSE]

RECURSIVE d_Accept(_, _)
RECURSIVE d_Args(_, _, _)
RECURSIVE d_Stmts(_, _, _)

\* debugVisitor.indent
RECURSIVE debugVisitor(_, _)
d_indent(d, n) ==
    LET d1 == debugVisitor("d_Accept", <<[d EXCEPT !.indentLevel = @ + 1], n>>)
    IN [d1 EXCEPT !.indentLevel = @ - 1]

d_Args(d, args, i) ==
    IF i > Len(args) THEN d
    ELSE LET d1 == debugVisitor("d_Accept", <<d, args[i]>>)
         IN debugVisitor("d_Args", <<IF i < Len(args) THEN d_write(d1, <<",", " ">>) ELSE d1,
                   args, i + 1>>)

d_Stmts(d, stmts, i) ==
    IF i > Len(stmts) THEN d ELSE debugVisitor("d_Stmts", <<debugVisitor("d_indent", <<d, stmts[i]>>), stmts, i + 1>>)

\* VisitPrimitiveType, VisitLiteral, VisitIdent, VisitCall, VisitReturn,
\* VisitExprStmt and VisitBlock; Accept on a nil interface value panics.
d_Accept(d, n) ==
    CASE n.kind = "nil" -> [d EXCEPT !.crashed = TRUE]
      [] n.kind = "PrimitiveType" -> d_write(d, AstTypeString(n))
      [] n.kind = "Literal" -> d_write(d, n.Value)
      [] n.kind = "Ident" -> d_write(d, n.Name)
      [] n.kind = "Call" ->
            d_write(debugVisitor("d_Args", <<d_write(debugVisitor("d_Accept", <<d, n.Callee>>), <<"(">>), n.Args, 1>>),
                    <<")">>)
      [] n.kind = "Return" ->
            d_writeln(IF IsNil(n.E) THEN d_write(d, <<"r","e","t","u","r","n"," ">>)
                      ELSE debugVisitor("d_Accept", <<d_write(d, <<"r","e","t","u","r","n"," ">>), n.E>>),
                      <<>>)
      [] n.kind = "ExprStmt" -> d_writeln(debugVisitor("d_Accept", <<d, n.E>>), <<>>)
      [] n.kind = "Block" ->
            d_writeln(debugVisitor("d_Stmts", <<d_writeln(d, <<"{">>), n.Stmts, 1>>), <<"}">>)

RECURSIVE d_Params(_, _, _)
d_Params(d, fields, i) ==
    IF i > Len(fields) THEN d
    ELSE LET d1 == debugVisitor("d_Accept", <<d_write(d, fields[i].Name.Lexeme \o <<" ">>),
                            fields[i].Type>>)
         IN debugVisitor("d_Params", <<IF i < Len(fields) THEN d_write(d1, <<",", " ">>) ELSE d1,
                     fields, i + 1>>)

d_VisitFunc(d, node) ==
    IF IsNil(node.Params) \/ IsNil(node.RetType)
    THEN [d EXCEPT !.crashed = TRUE]
    ELSE LET d1 == IF node.Public THEN d_write(d, <<"p","u","b"," ">>) ELSE d
             d2 == d_write(d1, <<"f","u","n","c"," ">> \o node.Name.Lexeme \o <<"(">>)
             d3 == d_write(debugVisitor("d_Params", <<d2, node.Params.Fields, 1>>), <<")">>)
             d4 == d_write(d3, <<" ">> \o AstTypeString(node.RetType) \o <<" ">>)
         IN IF IsNil(node.Block) THEN d4 ELSE debugVisitor("d_Accept", <<d4, node.Block>>)

RECURSIVE d_Walk(_, _, _)
d_Walk(d, nodes, i) ==
    IF i > Len(nodes) THEN d ELSE debugVisitor("d_Walk", <<debugVisitor("d_VisitFunc", <<d, nodes[i]>>), nodes, i + 1>>)

\* ast.String(tree)
\* The methods of debugVisitor by name: debugVisitor(m, a) applies method m to the
\* arguments a.
debugVisitor(m, a) ==
    CASE m = "d_indent" -> d_indent(a[1], a[2])
      [] m = "d_Args" -> d_Args(a[1], a[2], a[3])
      [] m = "d_Stmts" -> d_Stmts(a[1], a[2], a[3])
      [] m = "d_Accept" -> d_Accept(a[1], a[2])
      [] m = "d_Params" -> d_Params(a[1], a[2], a[3])
      [] m = "d_VisitFunc" -> d_VisitFunc(a[1], a[2])
      [] m = "d_Walk" -> d_Walk(a[1], a[2], a[3])

String(tree) == debugVisitor("d_Walk", <<newDebugVisitor, tree.Nodes, 1>>)

(***************************************************************************)
(* Structure of a tree: the nodes without their source positions           *)
(***************************************************************************)
RECURSIVE Shape(_)
RECURSIVE ShapeSeq(_)
ShapeSeq(ns) == [i \in 1..Len(ns) |-> Shape(ns[i])]

Shape(n) ==
    CASE n.kind = "nil" -> n
      [] n.kind = "PrimitiveType" -> [kind |-> n.kind, Kind |-> n.Kind, T |-> n.T.Lexeme]
      [] n.kind = "Literal" -> [kind |-> n.kind, Type |-> n.T.Type, Value |-> n.Value]
      [] n.kind = "Ident" -> [kind |-> n.kind, Name |-> n.Name]
      [] n.kind = "Call" ->
            [kind |-> n.kind, Callee |-> Shape(n.Callee), Args |-> ShapeSeq(n.Args)]
      [] n.kind = "Return" -> [kind |-> n.kind, E |-> Shape(n.E)]
      [] n.kind = "ExprStmt" -> [kind |-> n.kind, E |-> Shape(n.E)]
      [] n.kind = "Block" ->
            [kind |-> n.kind, Stmts |-> ShapeSeq(n.Stmts), Empty |-> n.Empty]
      [] n.kind = "NamedTuple" ->
            [kind |-> n.kind, Empty |-> n.Empty,
             Fields |-> [i \in 1..Len(n.Fields) |->
                           [Name |-> n.Fields[i].Name.Lexeme,
                            Type |-> Shape(n.Fields[i].Type)]]]
      [] n.kind = "Func" ->
            [kind |-> n.kind, Public |-> n.Public, Name |-> n.Name.Lexeme,
             Params |-> Shape(n.Params), RetType |-> Shape(n.RetType),
             Block |-> Shape(n.Block)]

(***************************************************************************)
(* Source files the pipeline is run on                                     *)
(***************************************************************************)
\* At most MaxStmts statements in a generated body, MaxFuncs declarations
\* in a generated file, MaxDepth blocks around a nested statement.
MaxStmts == 2

MaxFuncs == 2

MaxDepth == 1

\* How many times Scan is called again after it returned EOF.
MaxEofScans == 2

RECURSIVE Concat(_)
Concat(ss) == IF ss = <<>> THEN <<>> ELSE Head(ss) \o Concat(Tail(ss))

\* All sequences over S of length at most n.
RECURSIVE SeqsUpTo(_, _)
SeqsUpTo(S, n) ==
    IF n = 0 THEN {<<>>}
    ELSE LET shorter == SeqsUpTo(S, n - 1)
         IN shorter \cup {Append(q, x) : q \in shorter, x \in S}

\* func 
TxtFunc == <<"f","u","n","c"," ">>

\* pub 
TxtPub == <<"p","u","b"," ">>

\*  {\n
TxtOpen == <<" ","{","\n">>

\* }\n
TxtClose == <<"}","\n">>


\* One declaration in canonical layout: the header line, one statement per
\* line, the closing brace on a line of its own.
FuncText(public, name, params, ret, stmts) ==
    (IF public THEN TxtPub ELSE <<>>) \o TxtFunc \o name \o <<"(">> \o params
        \o <<")", " ">> \o ret \o TxtOpen \o Concat(stmts) \o TxtClose

\* A statement on its line, indented by one space per level.
StmtLine(level, text) == Repeat(<<" ">>, level) \o text \o <<"\n">>

\* A statement line wrapped in depth blocks.
RECURSIVE Nested(_, _, _)
Nested(level, text, depth) ==
    IF depth = 0 THEN StmtLine(level, text)
    ELSE StmtLine(level, <<"{">>) \o Nested(level + 1, text, depth - 1)
             \o StmtLine(level, <<"}">>)

\* The primitive type names.
RetTypeNames ==
    {\* int
      <<"i","n","t">>,
      \* float
      <<"f","l","o","a","t">>,
      \* string
      <<"s","t","r","i","n","g">>,
      \* byte
      <<"b","y","t","e">>,
      \* bool
      <<"b","o","o","l">>,
      \* void
      <<"v","o","i","d">>}

\* Return statements of the single-function files.
ReturnTexts ==
    {\* return
      <<"r","e","t","u","r","n">>,
      \* return 1
      <<"r","e","t","u","r","n"," ","1">>,
      \* return 1.5
      <<"r","e","t","u","r","n"," ","1",".","5">>,
      \* return "s"
      <<"r","e","t","u","r","n"," ","\"","s","\"">>,
      \* return 'a'
      <<"r","e","t","u","r","n"," ","'","a","'">>,
      \* return true
      <<"r","e","t","u","r","n"," ","t","r","u","e">>,
      \* return a
      <<"r","e","t","u","r","n"," ","a">>,
      \* return x
      <<"r","e","t","u","r","n"," ","x">>,
      \* return f
      <<"r","e","t","u","r","n"," ","f">>,
      \* return nil
      <<"r","e","t","u","r","n"," ","n","i","l">>,
      \* return g()
      <<"r","e","t","u","r","n"," ","g","(",")">>}

\* Well-formed statements of the generated bodies.
GoodStmts ==
    {\* return
      <<"r","e","t","u","r","n">>,
      \* return 1
      <<"r","e","t","u","r","n"," ","1">>,
      \* g(1, a)(2)
      <<"g","(","1",","," ","a",")","(","2",")">>}

\* Statements with a syntax error.
BadStmts ==
    {\* return )
      <<"r","e","t","u","r","n"," ",")">>,
      \* 1 2
      <<"1"," ","2">>}

\* Statements placed inside nested blocks.
InnerTexts ==
    {\* return
      <<"r","e","t","u","r","n">>,
      \* return 1
      <<"r","e","t","u","r","n"," ","1">>,
      \* return 1.5
      <<"r","e","t","u","r","n"," ","1",".","5">>}

\* a int
ParamsA == <<"a"," ","i","n","t">>

\* a int, b float
ParamsAB == <<"a"," ","i","n","t",","," ","b"," ","f","l","o","a","t">>


\* func f(a int) <ret> { <return statement> }
GridPrograms ==
    {FuncText(FALSE, <<"f">>, ParamsA, rt, <<StmtLine(1, st)>>) :
        rt \in RetTypeNames, st \in ReturnTexts}

BodyRetTypes == {<<"i","n","t">>, <<"v","o","i","d">>}

Lines(texts) == [i \in 1..Len(texts) |-> StmtLine(1, texts[i])]

\* func f() <ret> { up to MaxStmts well-formed statements }
BodyPrograms ==
    {FuncText(FALSE, <<"f">>, <<>>, rt, Lines(b)) :
        rt \in BodyRetTypes, b \in SeqsUpTo(GoodStmts, MaxStmts)}

\* The same with statements that do not parse among them.
ErrorPrograms ==
    {FuncText(FALSE, <<"f">>, <<>>, <<"i","n","t">>, Lines(b)) :
        b \in SeqsUpTo(GoodStmts \cup BadStmts, MaxStmts)
              \ SeqsUpTo(GoodStmts, MaxStmts)}

\* Files in which two statements on different lines each have an error.
TwoErrorPrograms ==
    {FuncText(FALSE, <<"f">>, <<>>, <<"i","n","t">>, Lines(<<b1, b2>>)) :
        b1 \in BadStmts, b2 \in BadStmts}

\* A nested statement, alone or followed by a return in the outer block.
NestedPrograms ==
    {FuncText(FALSE, <<"f">>, <<>>, rt, <<Nested(1, st, d)>> \o tail) :
        rt \in BodyRetTypes, st \in InnerTexts, d \in 1..MaxDepth,
        tail \in {<<>>, <<StmtLine(1, <<"r","e","t","u","r","n"," ","1">>)>>}}

\* Declarations of the files with several functions.
FuncTexts ==
    {\* func f() int {\n return 1\n}\n
      <<"f","u","n","c"," ","f","(",")"," ","i","n","t"," ","{","\n"," ","r","e","t","u","r","n"," ","1","\n","}","\n">>,
      \* pub func f(a int, b float) void {\n return 1.5\n {\n  return a\n }\n}\n
      <<"p","u","b"," ","f","u","n","c"," ","f","(","a"," ","i","n","t",","," ","b"," ","f","l","o","a","t",")"," ","v","o","i","d"," ","{","\n"," ","r","e","t","u","r","n"," ","1",".","5","\n"," ","{","\n"," "," ","r","e","t","u","r","n"," ","a","\n"," ","}","\n","}","\n">>,
      \* pub func main() int {\n return 0\n}\n
      <<"p","u","b"," ","f","u","n","c"," ","m","a","i","n","(",")"," ","i","n","t"," ","{","\n"," ","r","e","t","u","r","n"," ","0","\n","}","\n">>,
      \* func main(a int) void {\n}\n
      <<"f","u","n","c"," ","m","a","i","n","(","a"," ","i","n","t",")"," ","v","o","i","d"," ","{","\n","}","\n">>,
      \* func g() byte {\n}\n
      <<"f","u","n","c"," ","g","(",")"," ","b","y","t","e"," ","{","\n","}","\n">>}


\* Up to MaxFuncs declarations, one after the other.
MultiPrograms == {Concat(fs) : fs \in SeqsUpTo(FuncTexts, MaxFuncs)}

\* Bodies of the declarations of main: empty, a return, and a return in a
\* nested block followed by a return.
MainBodies ==
    {<<>>,
     <<StmtLine(1, <<"r","e","t","u","r","n"," ","1">>)>>,
     <<Nested(1, <<"r","e","t","u","r","n"," ","1">>, 1),
       StmtLine(1, <<"r","e","t","u","r","n">>)>>}

\* [pub] func main(<params>) <ret> { <body> }
MainPrograms ==
    {FuncText(pub, <<"m","a","i","n">>, params, rt, body) :
        pub \in BOOLEAN, params \in {<<>>, ParamsA},
        rt \in {<<"i","n","t">>, <<"f","l","o","a","t">>, <<"v","o","i","d">>},
        body \in MainBodies}

\* A function whose body names another function, declared after it or
\* before it.
ReferencePrograms ==
    {\* func f() int {\n return g\n}\nfunc g() int {\n return 1\n}\n
      <<"f","u","n","c"," ","f","(",")"," ","i","n","t"," ","{","\n"," ","r","e","t","u","r","n"," ","g","\n","}","\n","f","u","n","c"," ","g","(",")"," ","i","n","t"," ","{","\n"," ","r","e","t","u","r","n"," ","1","\n","}","\n">>,
      \* func g() int {\n return 1\n}\nfunc f() int {\n return g\n}\n
      <<"f","u","n","c"," ","g","(",")"," ","i","n","t"," ","{","\n"," ","r","e","t","u","r","n"," ","1","\n","}","\n","f","u","n","c"," ","f","(",")"," ","i","n","t"," ","{","\n"," ","r","e","t","u","r","n"," ","g","\n","}","\n">>}

\* func f(a void) <ret> {\n return a\n}\n: a parameter of type void returned.
VoidParamPrograms ==
    {FuncText(FALSE, <<"f">>, <<"a"," ","v","o","i","d">>, rt,
              <<StmtLine(1, <<"r","e","t","u","r","n"," ","a">>)>>) :
        rt \in BodyRetTypes}

CanonicalPrograms ==
    GridPrograms \cup BodyPrograms \cup NestedPrograms \cup MultiPrograms
        \cup MainPrograms \cup ReferencePrograms \cup VoidParamPrograms

\* Sources of the parser's own tests (parser_test.go).
TestPrograms ==
    {\* \n\t\tpub func foo() void {\n\t\t}\n\t
      <<"\n","\t","\t","p","u","b"," ","f","u","n","c"," ","f","o","o","(",")"," ","v","o","i","d"," ","{","\n","\t","\t","}","\n","\t">>,
      \* \n\t\tfunc faz(name string, age int) void {\n\t\t}\n\t
      <<"\n","\t","\t","f","u","n","c"," ","f","a","z","(","n","a","m","e"," ","s","t","r","i","n","g",","," ","a","g","e"," ","i","n","t",")"," ","v","o","i","d"," ","{","\n","\t","\t","}","\n","\t">>,
      \* \n\t\tfunc foo(a int, b float) int {\n\t\t\treturn a\n\t\t}\n\t
      <<"\n","\t","\t","f","u","n","c"," ","f","o","o","(","a"," ","i","n","t",","," ","b"," ","f","l","o","a","t",")"," ","i","n","t"," ","{","\n","\t","\t","\t","r","e","t","u","r","n"," ","a","\n","\t","\t","}","\n","\t">>,
      \* \n\t\tfunc foo() void {\n\t\t\tbar(1, "hello", a)\n\t\t}\n\t
      <<"\n","\t","\t","f","u","n","c"," ","f","o","o","(",")"," ","v","o","i","d"," ","{","\n","\t","\t","\t","b","a","r","(","1",","," ","\"","h","e","l","l","o","\"",","," ","a",")","\n","\t","\t","}","\n","\t">>,
      \* \n\t\tfunc foo() void {\n\t\t\tchained(1)(2)\n\t\t}\n\t
      <<"\n","\t","\t","f","u","n","c"," ","f","o","o","(",")"," ","v","o","i","d"," ","{","\n","\t","\t","\t","c","h","a","i","n","e","d","(","1",")","(","2",")","\n","\t","\t","}","\n","\t">>}

\* Files in other layouts, and files with scanner or syntax errors.
LoosePrograms ==
    {\* func foo() void {}
      <<"f","u","n","c"," ","f","o","o","(",")"," ","v","o","i","d"," ","{","}">>,
      \* func f() int { return 1\n}\n\n\nfunc g( ) void {\n\n return\n\n}
      <<"f","u","n","c"," ","f","(",")"," ","i","n","t"," ","{"," ","r","e","t","u","r","n"," ","1","\n","}","\n","\n","\n","f","u","n","c"," ","g","("," ",")"," ","v","o","i","d"," ","{","\n","\n"," ","r","e","t","u","r","n","\n","\n","}">>,
      \* func f() int {\n return (1)\n}\n
      <<"f","u","n","c"," ","f","(",")"," ","i","n","t"," ","{","\n"," ","r","e","t","u","r","n"," ","(","1",")","\n","}","\n">>,
      \* func f() int {\n return 1 // one\n}\n
      <<"f","u","n","c"," ","f","(",")"," ","i","n","t"," ","{","\n"," ","r","e","t","u","r","n"," ","1"," ","/","/"," ","o","n","e","\n","}","\n">>,
      \* // c\nfunc f() int {\n return 1\n}\n
      <<"/","/"," ","c","\n","f","u","n","c"," ","f","(",")"," ","i","n","t"," ","{","\n"," ","r","e","t","u","r","n"," ","1","\n","}","\n">>,
      \* func f() void {\n return\n g()\n}\n
      <<"f","u","n","c"," ","f","(",")"," ","v","o","i","d"," ","{","\n"," ","r","e","t","u","r","n","\n"," ","g","(",")","\n","}","\n">>,
      \* func f() int {\n return 1
      <<"f","u","n","c"," ","f","(",")"," ","i","n","t"," ","{","\n"," ","r","e","t","u","r","n"," ","1">>,
      \* func f() int {\n return 1\n
      <<"f","u","n","c"," ","f","(",")"," ","i","n","t"," ","{","\n"," ","r","e","t","u","r","n"," ","1","\n">>,
      \* func f() {\n}\n
      <<"f","u","n","c"," ","f","(",")"," ","{","\n","}","\n">>,
      \* func f( {}\nfunc g() int {\n return )\n}\n
      <<"f","u","n","c"," ","f","("," ","{","}","\n","f","u","n","c"," ","g","(",")"," ","i","n","t"," ","{","\n"," ","r","e","t","u","r","n"," ",")","\n","}","\n">>,
      \* func f(a) int {\n}\n
      <<"f","u","n","c"," ","f","(","a",")"," ","i","n","t"," ","{","\n","}","\n">>,
      \* pub x\n
      <<"p","u","b"," ","x","\n">>,
      \* func f(a int) int {\n g(1 2(3, a)\nfunc g() int {\n return 1\n}\n
      <<"f","u","n","c"," ","f","(","a"," ","i","n","t",")"," ","i","n","t"," ","{","\n"," ","g","(","1"," ","2","(","3",","," ","a",")","\n","f","u","n","c"," ","g","(",")"," ","i","n","t"," ","{","\n"," ","r","e","t","u","r","n"," ","1","\n","}","\n">>,
      \* func f() int {\n return )\nfunc g(a int, b int) int {\n return 1\n}\n
      <<"f","u","n","c"," ","f","(",")"," ","i","n","t"," ","{","\n"," ","r","e","t","u","r","n"," ",")","\n","f","u","n","c"," ","g","(","a"," ","i","n","t",","," ","b"," ","i","n","t",")"," ","i","n","t"," ","{","\n"," ","r","e","t","u","r","n"," ","1","\n","}","\n">>,
      \* func f() byte {\n return 'ab'\n}\n
      <<"f","u","n","c"," ","f","(",")"," ","b","y","t","e"," ","{","\n"," ","r","e","t","u","r","n"," ","'","a","b","'","\n","}","\n">>,
      \* func f() byte {\n return 'ab\n}\n
      <<"f","u","n","c"," ","f","(",")"," ","b","y","t","e"," ","{","\n"," ","r","e","t","u","r","n"," ","'","a","b","\n","}","\n">>,
      \* func f() byte {\n return 'a\n}\n
      <<"f","u","n","c"," ","f","(",")"," ","b","y","t","e"," ","{","\n"," ","r","e","t","u","r","n"," ","'","a","\n","}","\n">>,
      \* pub x f() int {\n return 1\n}\n
      <<"p","u","b"," ","x"," ","f","(",")"," ","i","n","t"," ","{","\n"," ","r","e","t","u","r","n"," ","1","\n","}","\n">>,
      \* pub return g() void {\n}\n
      <<"p","u","b"," ","r","e","t","u","r","n"," ","g","(",")"," ","v","o","i","d"," ","{","\n","}","\n">>,
      \* pub pub func f() int {\n}\n
      <<"p","u","b"," ","p","u","b"," ","f","u","n","c"," ","f","(",")"," ","i","n","t"," ","{","\n","}","\n">>,
      \* return 1\n
      <<"r","e","t","u","r","n"," ","1","\n">>,
      \* func f() int {\n return ?\n}\n
      <<"f","u","n","c"," ","f","(",")"," ","i","n","t"," ","{","\n"," ","r","e","t","u","r","n"," ","?","\n","}","\n">>,
      \* ?
      <<"?">>,
      \* // c\n
      <<"/","/"," ","c","\n">>,
      \* func f() void {\n}\n\t// c
      <<"f","u","n","c"," ","f","(",")"," ","v","o","i","d"," ","{","\n","}","\n","\t","/","/"," ","c">>,
      \* func f() int {\n return 1.2.3\n}\n
      <<"f","u","n","c"," ","f","(",")"," ","i","n","t"," ","{","\n"," ","r","e","t","u","r","n"," ","1",".","2",".","3","\n","}","\n">>,
      \* func f() string {\n return "s\n}\n
      <<"f","u","n","c"," ","f","(",")"," ","s","t","r","i","n","g"," ","{","\n"," ","r","e","t","u","r","n"," ","\"","s","\n","}","\n">>,
      \* func f() int {\n}\n#\nfunc f() float {\n return 1\n}\n
      <<"f","u","n","c"," ","f","(",")"," ","i","n","t"," ","{","\n","}","\n","#","\n","f","u","n","c"," ","f","(",")"," ","f","l","o","a","t"," ","{","\n"," ","r","e","t","u","r","n"," ","1","\n","}","\n">>}


\* Sources of the IR tests (ir_test.go).
IrTestPrograms ==
    {\* \n\t\tpub func main() int {\n\t\t\treturn 42\n\t\t}\n\t
      <<"\n","\t","\t","p","u","b"," ","f","u","n","c"," ","m","a","i","n","(",")"," ","i","n","t"," ","{","\n","\t","\t","\t","r","e","t","u","r","n"," ","4","2","\n","\t","\t","}","\n","\t">>,
      \* \n\t\t\tfunc foo() string {\n\t\t\t\treturn "hello"\n\t\t\t}\n\t\t
      <<"\n","\t","\t","\t","f","u","n","c"," ","f","o","o","(",")"," ","s","t","r","i","n","g"," ","{","\n","\t","\t","\t","\t","r","e","t","u","r","n"," ","\"","h","e","l","l","o","\"","\n","\t","\t","\t","}","\n","\t","\t">>,
      \* \n\t\t\tfunc foo() float {\n\t\t\t\treturn 1.0\n\t\t\t}\n\t\t
      <<"\n","\t","\t","\t","f","u","n","c"," ","f","o","o","(",")"," ","f","l","o","a","t"," ","{","\n","\t","\t","\t","\t","r","e","t","u","r","n"," ","1",".","0","\n","\t","\t","\t","}","\n","\t","\t">>,
      \* \n\t\t\tfunc foo() bool {\n\t\t\t\treturn true\n\t\t\t}\n\t\t
      <<"\n","\t","\t","\t","f","u","n","c"," ","f","o","o","(",")"," ","b","o","o","l"," ","{","\n","\t","\t","\t","\t","r","e","t","u","r","n"," ","t","r","u","e","\n","\t","\t","\t","}","\n","\t","\t">>}

\* Sources of the scanner's number tests (scanner_test.go), and numbers that
\* end with a dot, follow a letter or start with a dot.
NumberSources ==
    {\* 123 1.23
      <<"1","2","3"," ","1",".","2","3">>,
      \* 1.1.2 123..4
      <<"1",".","1",".","2"," ","1","2","3",".",".","4">>,
      \* 123..456
      <<"1","2","3",".",".","4","5","6">>,
      \* 12.
      <<"1","2",".">>,
      \* a1.2 .5
      <<"a","1",".","2"," ",".","5">>,
      \* func f() float {\n return 1.\n}\n
      <<"f","u","n","c"," ","f","(",")"," ","f","l","o","a","t"," ","{","\n"," ","r","e","t","u","r","n"," ","1",".","\n","}","\n">>}

\* Well-formed call statements with chained and empty argument lists.
CallPrograms ==
    {\* func f() void {\n g()\n}\n
      <<"f","u","n","c"," ","f","(",")"," ","v","o","i","d"," ","{","\n"," ","g","(",")","\n","}","\n">>,
      \* func f() void {\n g()(2)\n}\n
      <<"f","u","n","c"," ","f","(",")"," ","v","o","i","d"," ","{","\n"," ","g","(",")","(","2",")","\n","}","\n">>,
      \* func f() void {\n g(1)()(a, 2)\n}\n
      <<"f","u","n","c"," ","f","(",")"," ","v","o","i","d"," ","{","\n"," ","g","(","1",")","(",")","(","a",","," ","2",")","\n","}","\n">>,
      \* func f() void {\n g()()\n}\n
      <<"f","u","n","c"," ","f","(",")"," ","v","o","i","d"," ","{","\n"," ","g","(",")","(",")","\n","}","\n">>,
      \* func f() void {\n g(h(), 1)(k()(2))\n}\n
      <<"f","u","n","c"," ","f","(",")"," ","v","o","i","d"," ","{","\n"," ","g","(","h","(",")",","," ","1",")","(","k","(",")","(","2",")",")","\n","}","\n">>}

\* Call statements with an argument list that is not closed or not complete.
OpenCallPrograms ==
    {\* func f() void {\n g(1\n}\n
      <<"f","u","n","c"," ","f","(",")"," ","v","o","i","d"," ","{","\n"," ","g","(","1","\n","}","\n">>,
      \* func f() void {\n g()(\n}\n
      <<"f","u","n","c"," ","f","(",")"," ","v","o","i","d"," ","{","\n"," ","g","(",")","(","\n","}","\n">>,
      \* func f() void {\n g(1,)\n}\n
      <<"f","u","n","c"," ","f","(",")"," ","v","o","i","d"," ","{","\n"," ","g","(","1",",",")","\n","}","\n">>}

\* Two statements with an expression, one per line: the files in which the
\* second statement is return 1.
TwoStmtPrograms ==
    {FuncText(FALSE, <<"f">>, <<>>, rt,
              Lines(<<st, (<<"r","e","t","u","r","n"," ","1">>)>>)) :
        rt \in BodyRetTypes, st \in GoodStmts \ {<<"r","e","t","u","r","n">>}}

\* The same files with a comment at the end of the first statement's line.
CommentedPrograms ==
    {FuncText(FALSE, <<"f">>, <<>>, rt,
              Lines(<<st \o <<" ","/","/"," ","c">>,
                      (<<"r","e","t","u","r","n"," ","1">>)>>)) :
        rt \in BodyRetTypes, st \in GoodStmts \ {<<"r","e","t","u","r","n">>}}

\* A literal of each kind returned from a function of its type.
LiteralPrograms ==
    {\* func f() string {\n return "s"\n}\n
      <<"f","u","n","c"," ","f","(",")"," ","s","t","r","i","n","g"," ","{","\n"," ","r","e","t","u","r","n"," ","\"","s","\"","\n","}","\n">>,
      \* func f() float {\n return 1.5\n}\n
      <<"f","u","n","c"," ","f","(",")"," ","f","l","o","a","t"," ","{","\n"," ","r","e","t","u","r","n"," ","1",".","5","\n","}","\n">>,
      \* func f() bool {\n return false\n}\n
      <<"f","u","n","c"," ","f","(",")"," ","b","o","o","l"," ","{","\n"," ","r","e","t","u","r","n"," ","f","a","l","s","e","\n","}","\n">>,
      \* func f() byte {\n return 'a'\n}\n
      <<"f","u","n","c"," ","f","(",")"," ","b","y","t","e"," ","{","\n"," ","r","e","t","u","r","n"," ","'","a","'","\n","}","\n">>}

Programs ==
    CanonicalPrograms \cup ErrorPrograms \cup TestPrograms \cup LoosePrograms
        \cup IrTestPrograms \cup LiteralPrograms \cup NumberSources
        \cup CallPrograms \cup OpenCallPrograms \cup CommentedPrograms

(***************************************************************************)
(* The entry points, one stage per step                                    *)
(***************************************************************************)
VARIABLES
    file,   \* token.File.Src
    entry,  \* the function called: Parse, ParseFile, GenerateIR or
            \* parseAndCompare; Scan: a caller of Scanner.Scan that goes on
            \* calling after the EOF token
    pc,     \* the stage about to run
    s,      \* the scanner
    toks,   \* the tokens ScanAll has collected
    p,      \* the parser
    nodes,  \* the declarations Parser.Parse has collected
    c,      \* the checker
    walk,   \* the declaration Ast.Walk visits next
    b,      \* the IR builder
    ret,    \* what the entry point returned
    cmp,    \* what parseAndCompare found
    first   \* the run on the source whose print is being read back

vars == <<file, entry, pc, s, toks, p, nodes, c, walk, b, ret, cmp, first>>

EntryPoints ==
    {"Parse", "ParseFile", "GenerateIR", "parseAndCompare", "Scan"}

NoResult == [kind |-> "nil"]

Returned(tree, tbl, err) ==
    [kind |-> "return", tree |-> tree, tbl |-> tbl, err |-> err]

\* What GenerateIR returns.
ReturnedIR(i, err) == [kind |-> "return", i |-> i, err |-> err]

\* What Parse returns to its caller.
ParseResult(tree, tbl, err) ==
    IF entry = "GenerateIR"
    THEN ReturnedIR(Nil, err)
    ELSE Returned(tree, tbl, err)

Init ==
    /\ file \in Programs
    /\ entry \in EntryPoints
    /\ pc = "ScanAll"
    /\ s = NewScanner(file)
    /\ toks = <<>>
    /\ p = NewParser(file, <<>>)
    /\ nodes = <<>>
    /\ c = NewChecker(file)
    /\ walk = 1
    /\ b = Nil
    /\ ret = NoResult
    /\ cmp = NoResult
    /\ first = NoResult

\* One iteration of the loop of ScanAll: Scan, append, stop after EOF.
ScanStep ==
    /\ pc = "ScanAll"
    /\ \E r \in {Scan(s)} :
          /\ s' = r.s
          /\ toks' = Append(toks, r.tok)
          /\ pc' = IF r.s.crashed THEN "panic"
                   ELSE IF ~r.tok.Eof THEN "ScanAll"
                   ELSE IF entry = "Scan" THEN "Scan" ELSE "Tokenize"
    /\ UNCHANGED <<file, entry, p, nodes, c, walk, b, ret, cmp, first>>

\* Scanner.Scan called again after it has returned the EOF token.
ScanAtEof ==
    /\ pc = "Scan"
    /\ Cardinality({i \in 1..Len(toks) : toks[i].Eof}) <= MaxEofScans
    /\ \E r \in {Scan(s)} :
          /\ s' = r.s
          /\ toks' = Append(toks, r.tok)
          /\ pc' = IF r.s.crashed THEN "panic" ELSE "Scan"
    /\ UNCHANGED <<file, entry, p, nodes, c, walk, b, ret, cmp, first>>

\* What the entry point does with the scan: ParseFile returns the scanner's
\* error; Parse (GenerateIR calls it) drops the error Tokenize returned and
\* goes on with Tokenize's nil tokens; parserFrom of the parser's tests does
\* not look at the scanner's errors.
Tokenize ==
    /\ pc = "Tokenize"
    /\ IF entry = "ParseFile" /\ s.NumErrors > 0
       THEN /\ pc' = "return"
            /\ ret' = Returned(Nil, Nil, JoinErrors(s.errors))
            /\ UNCHANGED p
       ELSE /\ pc' = "Parse"
            /\ p' = NewParser(file,
                              IF entry \in {"Parse", "GenerateIR"}
                                 /\ s.NumErrors > 0
                              THEN <<>> ELSE toks)
            /\ UNCHANGED ret
    /\ UNCHANGED <<file, entry, s, toks, nodes, c, walk, b, cmp, first>>

\* One iteration of the loop of Parser.Parse.
ParserStep ==
    /\ pc = "Parse"
    /\ ~p_eof(p)
    /\ \E r \in {ParseIteration(p, nodes)} :
          /\ p' = r.p
          /\ nodes' = r.nodes
          /\ pc' = IF r.p.crashed THEN "panic"
                   ELSE IF r.done THEN "ParseDone" ELSE "Parse"
    /\ UNCHANGED <<file, entry, s, toks, c, walk, b, ret, cmp, first>>

\* Parser.Parse returns; the entry point stops on a parser error.
ParserReturn ==
    /\ \/ pc = "Parse" /\ p_eof(p)
       \/ pc = "ParseDone"
    /\ IF p.NumErrors > 0
       THEN /\ pc' = "return"
            /\ ret' = ParseResult(Nil, Nil, JoinErrors(p.errors))
       ELSE /\ pc' = IF entry = "parseAndCompare" THEN "String" ELSE "Check"
            /\ UNCHANGED ret
    /\ UNCHANGED <<file, entry, s, toks, p, nodes, c, walk, b, cmp, first>>

\* Ast.Walk under Checker.Check: the next declaration accepts the checker.
CheckStep ==
    /\ pc = "Check"
    /\ walk <= Len(nodes)
    /\ \E r \in {VisitFunc(c, nodes[walk])} :
          /\ c' = r
          /\ pc' = IF r.crashed THEN "panic" ELSE "Check"
    /\ walk' = walk + 1
    /\ UNCHANGED <<file, entry, s, toks, p, nodes, ret, cmp, first, b>>

\* Checker.Check returns, and Parse or ParseFile with it; GenerateIR returns
\* the error of Parse, or goes on to build from the tree and the table.
CheckReturn ==
    /\ pc = "Check"
    /\ walk > Len(nodes)
    /\ IF JoinErrors(c.eh) # NilError
       THEN /\ pc' = "return"
            /\ ret' = ParseResult(Nil, Nil, JoinErrors(c.eh))
            /\ UNCHANGED <<walk, b>>
       ELSE IF entry = "GenerateIR" /\ JoinErrors(p.errors) = NilError
       THEN /\ pc' = "Build"
            /\ b' = NewBuilder([Nodes |-> nodes], c.table)
            /\ walk' = 1
            /\ UNCHANGED ret
       ELSE /\ pc' = "return"
            /\ ret' = ParseResult([Nodes |-> nodes], c.table,
                                  JoinErrors(p.errors))
            /\ UNCHANGED <<walk, b>>
    /\ UNCHANGED <<file, entry, s, toks, p, nodes, c, cmp, first>>

\* Ast.Walk under Builder.Build: the next declaration accepts the builder.
BuildStep ==
    /\ pc = "Build"
    /\ walk <= Len(nodes)
    /\ \E r \in {b_VisitFunc(b, nodes[walk])} :
          /\ b' = r
          /\ pc' = IF r.crashed THEN "panic"
                   ELSE IF r.fatal THEN "fatal" ELSE "Build"
    /\ walk' = walk + 1
    /\ UNCHANGED <<file, entry, s, toks, p, nodes, c, ret, cmp, first>>

\* Builder.Build returns, and GenerateIR with it.
BuildReturn ==
    /\ pc = "Build"
    /\ walk > Len(nodes)
    /\ pc' = "return"
    /\ ret' = ReturnedIR([Instructions |-> b.ir, Table |-> b.tr],
                         JoinErrors(b.eh))
    /\ UNCHANGED <<file, entry, s, toks, p, nodes, c, walk, b, cmp, first>>

(***************************************************************************)
(* parseAndCompare of the parser's tests                                   *)
(***************************************************************************)
\* What strings.TrimSpace cuts off (of the characters of the sources here).
SpaceChars == {" ", "\t", "\n", "\r"}

\* strings.TrimSpace: from the first to the last character that is no space.
TrimSpace(str) ==
    LET keep == {i \in 1..Len(str) : str[i] \notin SpaceChars}
    IN IF keep = {} THEN <<>>
       ELSE SubSeq(str, CHOOSE i \in keep : \A j \in keep : i <= j,
                        CHOOSE i \in keep : \A j \in keep : j <= i)

\* strings.Split(str, "\n"): the pieces between the line breaks.
SplitLines(str) ==
    LET breaks == {i \in 1..Len(str) : str[i] = "\n"}
        before(i) == Cardinality({j \in breaks : j < i})
        from(k) == IF k = 1 THEN 1
                   ELSE 1 + CHOOSE i \in breaks : before(i) = k - 2
        to(k) == IF k = Cardinality(breaks) + 1 THEN Len(str)
                 ELSE (CHOOSE i \in breaks : before(i) = k - 1) - 1
    IN [k \in 1..(Cardinality(breaks) + 1) |-> SubSeq(str, from(k), to(k))]

\* The comparison of parseAndCompare: the same number of lines, and line by
\* line the same text once trimmed.
LinesMatch(src, printed) ==
    /\ Len(SplitLines(TrimSpace(printed))) = Len(SplitLines(TrimSpace(src)))
    /\ \A i \in 1..Len(SplitLines(TrimSpace(printed))) :
          TrimSpace(SplitLines(TrimSpace(printed))[i])
              = TrimSpace(SplitLines(TrimSpace(src))[i])

\* parseAndCompare after parserFrom and Parse went through without error:
\* the tree is printed and the print compared with the source.
Compare ==
    /\ pc = "String"
    /\ \E d \in {String([Nodes |-> nodes])} :
          IF d.crashed
          THEN pc' = "panic" /\ UNCHANGED cmp
          ELSE /\ pc' = "return"
               /\ cmp' = [kind |-> "compared", printed |-> d.sb,
                          pass |-> LinesMatch(file, d.sb)]
    /\ UNCHANGED <<file, entry, s, toks, p, nodes, c, walk, b, ret, first>>

\* The round trip: what ast.String printed is given to parseAndCompare as
\* its source, the first run kept for comparison.
ReadBack ==
    /\ pc = "return"
    /\ cmp.kind = "compared"
    /\ first = NoResult
    /\ first' = [kind |-> "run", file |-> file, s |-> s, nodes |-> nodes,
                 cmp |-> cmp]
    /\ file' = cmp.printed
    /\ pc' = "ScanAll"
    /\ s' = NewScanner(cmp.printed)
    /\ toks' = <<>>
    /\ p' = NewParser(cmp.printed, <<>>)
    /\ nodes' = <<>>
    /\ cmp' = NoResult
    /\ UNCHANGED <<entry, c, walk, b, ret>>

Next ==
    \/ ScanStep
    \/ ScanAtEof
    \/ Tokenize
    \/ ParserStep
    \/ ParserReturn
    \/ CheckStep
    \/ CheckReturn
    \/ BuildStep
    \/ BuildReturn
    \/ Compare
    \/ ReadBack

Spec == Init /\ [][Next]_vars

(***************************************************************************)
(* Properties of the entry points and of the parser                        *)
(***************************************************************************)
\* Parser.Parse has returned to the entry point.
ParseCompleted ==
    \/ pc = "Parse" /\ p_eof(p)
    \/ pc \in {"ParseDone", "Check", "String", "Build", "fatal"}
    \/ pc = "return" /\ (entry # "ParseFile" \/ s.NumErrors = 0)

\* Checker.Check has returned to the entry point.
CheckCompleted ==
    /\ pc = "return"
    /\ entry \in {"Parse", "ParseFile"}
    /\ p.NumErrors = 0
    /\ entry = "ParseFile" => s.NumErrors = 0

\* C1: when the scanner reported errors for the file, what Parse and
\* ParseFile return is a non-nil error and no tree: never a tree, empty or
\* not, with a nil error.
C1_ScannerErrorsAreReturned ==
    (pc = "return" /\ entry \in {"Parse", "ParseFile"} /\ s.NumErrors > 0)
        => (ret.err # NilError /\ ret.tree = Nil)

\* C2: when scanning and parsing went through and the checker recorded a
\* diagnostic, the entry point returns the aggregated error together with
\* the tree and the symbol table, none of them nil.
C2_SemanticErrorsComeWithTheTree ==
    (CheckCompleted /\ s.NumErrors = 0 /\ c.NumErrors > 0)
        => (ret.err # NilError /\ ret.tree # Nil /\ ret.tbl # Nil)

\* C3: over every step of Parser.Parse, NumErrors and the diagnostic list
\* grow by one exactly when the parser goes from normal to panic mode and
\* not at all otherwise; in panic mode the list stays as it is and errFromTo
\* changes nothing.
C3_OneDiagnosticPerPanic ==
    [][(pc = "Parse" /\ ~p'.crashed) =>
          /\ p'.NumErrors - p.NumErrors
                = (IF ~p.panicMode /\ p'.panicMode THEN 1 ELSE 0)
          /\ Len(p'.errors) - Len(p.errors) = p'.NumErrors - p.NumErrors
          /\ p.panicMode =>
                /\ p'.errors = p.errors
                /\ p'.NumErrors = p.NumErrors
                /\ errFromTo(p, p_cur(p), p_cur(p),
                             Sprintf("expected %s", <<"RBRACE">>)) = p]_vars

\* A file with an error on each of two lines has been parsed: one
\* diagnostic, the parser in panic mode.
C3_Witness ==
    /\ pc = "return"
    /\ file \in TwoErrorPrograms
    /\ p.panicMode
    /\ p.NumErrors = 1
    /\ Len(p.errors) = 1

\* C4: after a syntax error in one statement the parser leaves panic mode
\* and goes on, so that of a file with a syntax error in each of two
\* statements both errors are reported.
C4_SecondErrorIsReported ==
    (ParseCompleted /\ file \in TwoErrorPrograms) => p.NumErrors >= 2

\* C5: once Parse has completed with NumErrors = 0, every Func of the tree
\* has a Block, a Params tuple and a RetType, none of them nil.
C5_FuncIsComplete ==
    (ParseCompleted /\ p.NumErrors = 0) =>
        \A i \in 1..Len(nodes) :
            /\ nodes[i].kind = "Func"
            /\ ~IsNil(nodes[i].Block)
            /\ ~IsNil(nodes[i].Params)
            /\ ~IsNil(nodes[i].RetType)

\* An error-free parse of two declarations, one of them with two parameters.
C5_Witness ==
    /\ pc = "Check"
    /\ p.NumErrors = 0
    /\ Len(nodes) = 2
    /\ \E i \in 1..Len(nodes) : Len(nodes[i].Params.Fields) = 2

NewDiagnostics(eh, n) == SubSeq(eh, n + 1, Len(eh))

\* How many of the diagnostics have the format f.
CountFormat(diags, f) ==
    Cardinality({i \in 1..Len(diags) : diags[i].msg.fmt = f})

MainFormats ==
    {"main function cannot have parameters",
     "main function must return int type", "main function must be public"}

\* The declaration Ast.Walk has reached is of a name declared before it.
IsRedeclaration(k) ==
    \E j \in 1..(k - 1) : nodes[j].Name.Lexeme = nodes[k].Name.Lexeme

\* The first declaration of the name of declaration k.
FirstDeclaration(k) ==
    nodes[CHOOSE j \in 1..k :
            /\ nodes[j].Name.Lexeme = nodes[k].Name.Lexeme
            /\ \A i \in 1..(j - 1) :
                  nodes[i].Name.Lexeme # nodes[k].Name.Lexeme]

HasTopLevelReturn(block) ==
    \E i \in 1..Len(block.Stmts) : block.Stmts[i].kind = "Return"

\* The Return statements of a statement list, those of nested blocks too.
RECURSIVE CountReturns(_)
CountReturns(stmts) ==
    IF stmts = <<>> THEN 0
    ELSE (CASE Head(stmts).kind = "Return" -> 1
            [] Head(stmts).kind = "Block" -> CountReturns(Head(stmts).Stmts)
            [] OTHER -> 0)
         + CountReturns(Tail(stmts))

RECURSIVE CountReturnsOfFuncs(_)
CountReturnsOfFuncs(decls) ==
    IF decls = <<>> THEN 0
    ELSE CountReturns(Head(decls).Block.Stmts)
         + CountReturnsOfFuncs(Tail(decls))

TypeKinds == {"INT", "FLOAT", "STRING", "BYTE", "BOOL", "VOID"}

C9_EveryReturnIsChecked ==
    CheckCompleted => Len(c.returns) = CountReturnsOfFuncs(nodes)

\* C10: the visit of a declaration whose name is declared already records
\* one "already declared" diagnostic that cites the line of the first
\* declaration, leaves the name with the first declaration's symbol (Pos,
\* Type and Exported as they were) and pushes no scope.
C10_Redeclaration ==
    [][(pc = "Check" /\ walk <= Len(nodes) /\ ~c'.crashed
           /\ IsRedeclaration(walk)) =>
          LET node == nodes[walk]
              name == node.Name.Lexeme
              fst == FirstDeclaration(walk)
              new == NewDiagnostics(c'.eh, Len(c.eh))
              was == c.table.scopes[c.table.globalScope].symbols[name]
              is == c'.table.scopes[c'.table.globalScope].symbols[name]
          IN /\ CountFormat(new, "function %s already declared on line %d")
                   = 1
             /\ new[Len(new)].msg
                   = Sprintf("function %s already declared on line %d",
                             <<name, fst.Name.Pos.Row + 1>>)
             /\ {i \in 1..Len(new) : new[i].msg.fmt \notin MainFormats}
                   = {Len(new)}
             /\ is.Pos = was.Pos /\ is.Pos = fst.Name.Pos
             /\ is.Type = was.Type /\ is.Type = PrimType(fst.RetType.Kind)
             /\ is.Exported = was.Exported /\ is.Exported = fst.Public
             /\ Len(c'.table.scopes) = Len(c.table.scopes)
             /\ c'.table.currentScope = c.table.currentScope
             /\ c'.table.scopeMap = c.table.scopeMap]_vars

\* A second declaration of f, public and with another return type than the
\* first, was visited.
C10_Witness ==
    /\ pc = "Check"
    /\ walk = 3
    /\ nodes[1].Name.Lexeme = nodes[2].Name.Lexeme
    /\ nodes[1].Public # nodes[2].Public
    /\ nodes[1].RetType.Kind # nodes[2].RetType.Kind
    /\ CountFormat(c.eh, "function %s already declared on line %d") = 1

\* The diagnostics on main's signature among those a visit recorded.
MainDiagnostics(diags) ==
    {i \in 1..Len(diags) : diags[i].msg.fmt \in MainFormats}

FuncNames == {nodes[j].Name.Lexeme : j \in 1..Len(nodes)}

\* C12: after the visit of a declaration that walked its body every function
\* of the file is a symbol of the global scope (no symbol is ever removed, so
\* one that is missing after the visit was missing while the body was
\* walked), and the visit recorded no "is undefined" diagnostic for the name
\* of a function of the file.
C12_ForwardReference ==
    [][(pc = "Check" /\ walk <= Len(nodes) /\ ~c'.crashed
           /\ ~IsRedeclaration(walk)) =>
          LET new == NewDiagnostics(c'.eh, Len(c.eh))
              glob == c'.table.scopes[c'.table.globalScope]
          IN /\ FuncNames \subseteq DOMAIN glob.symbols
             /\ \A i \in 1..Len(new) :
                   new[i].msg.fmt = "%s is undefined"
                      => new[i].msg.args[1] \notin FuncNames]_vars

(***************************************************************************)
(* Properties of the scope table, the TableReader and the IR builder       *)
(***************************************************************************)
\* How many of the first n scope calls are call.
CallsBefore(calls, n, call) ==
    Cardinality({i \in 1..n : calls[i] = call})

\* At no moment were there more pop calls than push calls.
NeverMorePops(calls, push, pop) ==
    \A n \in 0..Len(calls) :
        CallsBefore(calls, n, pop) <= CallsBefore(calls, n, push)

\* Checker.Check has walked the whole tree.
CheckWalked ==
    \/ pc = "Check" /\ walk > Len(nodes)
    \/ pc \in {"Build", "fatal"}
    \/ pc = "return" /\ (CheckCompleted \/ (entry = "GenerateIR" /\ p.NumErrors = 0))

\* Builder.Build has walked the whole tree.
BuildWalked ==
    \/ pc = "Build" /\ walk > Len(nodes)
    \/ pc = "return" /\ entry = "GenerateIR" /\ b # Nil

\* C13: at every moment of Check the PopScope calls made so far are no more
\* than the PushScope calls, and once Check has walked the tree, with or
\* without diagnostics, the current scope is the global scope and the calls
\* are as many of each; the same for Push and Pop of the TableReader and
\* Build.
C13_ScopeBalance ==
    /\ NeverMorePops(c.table.calls, "PushScope", "PopScope")
    /\ CheckWalked =>
          /\ c.table.currentScope = c.table.globalScope
          /\ CallsBefore(c.table.calls, Len(c.table.calls), "PopScope")
                = CallsBefore(c.table.calls, Len(c.table.calls), "PushScope")
    /\ b # Nil => NeverMorePops(b.tr.calls, "Push", "Pop")
    /\ BuildWalked =>
          /\ b.tr.currentScope = b.tr.globalScope
          /\ CallsBefore(b.tr.calls, Len(b.tr.calls), "Pop")
                = CallsBefore(b.tr.calls, Len(b.tr.calls), "Push")

\* GenerateIR has returned the IR of a function with a nested block: two
\* scopes pushed by the checker and entered again by the builder.
C13_Witness ==
    /\ BuildWalked
    /\ pc = "return"
    /\ CallsBefore(b.tr.calls, Len(b.tr.calls), "PushScope") >= 2
    /\ CallsBefore(b.tr.calls, Len(b.tr.calls), "Push") >= 2
    /\ b.tr.currentScope = b.tr.globalScope

\* Every Return statement of the statement list, those of nested blocks too,
\* has no expression exactly when void is TRUE.
RECURSIVE ReturnsMatch(_, _)
ReturnsMatch(stmts, void) ==
    \A i \in 1..Len(stmts) :
        CASE stmts[i].kind = "Return" -> (IsNil(stmts[i].E) <=> void)
          [] stmts[i].kind = "Block" -> ReturnsMatch(stmts[i].Stmts, void)
          [] OTHER -> TRUE

\* C14: when Check has walked the tree and recorded no diagnostic, every
\* Return statement of every function has no expression if and only if the
\* function's declared return type is void.
C14_ReturnNilIffVoid ==
    (CheckWalked /\ c.eh = <<>>) =>
        \A k \in 1..Len(nodes) :
            ReturnsMatch(nodes[k].Block.Stmts, nodes[k].RetType.Kind = "VOID")

StoreOps == {"STORE_INT64", "STORE_FLOAT64", "STORE_STR", "STORE_BOOL"}

\* GenerateIR has returned an IR and a nil error.
Compiled ==
    /\ pc = "return"
    /\ entry = "GenerateIR"
    /\ ret.err = NilError
    /\ ret.i # Nil

C16_IrStartsWithFunc ==
    Compiled =>
        /\ ret.i.Instructions # <<>>
        /\ ret.i.Instructions[1].Op = "FUNC"

\* C17: every TableReader.Get call of the builder left the table as it was:
\* the scopes with the fields of their symbols, RefCount among them, the
\* scope map and the current scope.
C17_GetIsPureRead ==
    b # Nil =>
        \A i \in 1..Len(b.gets) :
            /\ b.gets[i].after.scopes = b.gets[i].before.scopes
            /\ b.gets[i].after.scopeMap = b.gets[i].before.scopeMap
            /\ b.gets[i].after.currentScope = b.gets[i].before.currentScope
            /\ b.gets[i].after.globalScope = b.gets[i].before.globalScope

(***************************************************************************)
(* Properties of the scanner and of token.File                             *)
(***************************************************************************)
EofTokens == {i \in 1..Len(toks) : toks[i].Eof}

\* C18: every Scan call adds exactly one token to those returned so far; a
\* Scan call made after Scan has returned an EOF token returns an EOF token
\* again and leaves pos, row and col of the scanner as they were; what
\* ScanAll returns holds one EOF token, its last element.
C18_ScanAtEof ==
    /\ [][(pc \in {"ScanAll", "Scan"}) =>
             /\ Len(toks') = Len(toks) + 1
             /\ SubSeq(toks', 1, Len(toks)) = toks
             /\ (EofTokens # {} /\ ~s'.crashed) =>
                   /\ toks'[Len(toks')].Type = "EOF"
                   /\ toks'[Len(toks')].Eof
                   /\ s'.pos = s.pos /\ s'.row = s.row /\ s'.col = s.col]_vars
    /\ [](pc = "Tokenize" =>
             /\ EofTokens = {Len(toks)}
             /\ {i \in 1..Len(toks) : toks[i].Type = "EOF"} = {Len(toks)})

\* Scan was called twice more after the EOF token of a file with other
\* tokens before it.
C18_Witness ==
    /\ pc = "Scan"
    /\ Len(toks) >= 5
    /\ Cardinality(EofTokens) = 3
    /\ EofTokens = (Len(toks) - 2)..Len(toks)

\* C19: every token Scan has returned, NEWLINE and EOF tokens too, starts no
\* later than it ends in offset and in column, starts and ends on the same
\* row, has as its column the distance of its offset from the beginning of
\* its line, and has the scanner's file in both positions.
C19_TokenSpan ==
    \A i \in 1..Len(toks) :
        LET tok == toks[i]
        IN /\ tok.Pos.Offset <= tok.EndPos.Offset
           /\ tok.Pos.Col <= tok.EndPos.Col
           /\ tok.Pos.Row = tok.EndPos.Row
           /\ tok.Pos.Col = tok.Pos.Offset - tok.Pos.LineBegin
           /\ tok.Pos.File = s.file
           /\ tok.EndPos.File = s.file

\* ScanAll has returned tokens that end with a NEWLINE and the EOF token on
\* a later row, and hold a token that does not start its line.
C19_Witness ==
    /\ pc = "Tokenize"
    /\ Len(toks) >= 3
    /\ toks[Len(toks) - 1].Type = "NEWLINE"
    /\ toks[Len(toks)].Type = "EOF"
    /\ toks[Len(toks)].Pos.Row >= 2
    /\ \E i \in 1..Len(toks) :
          /\ toks[i].Pos.Row >= 1
          /\ toks[i].Pos.Col >= 1
          /\ toks[i].Pos.LineBegin >= 1
          /\ toks[i].EndPos.Offset > toks[i].Pos.Offset + 1

\* The offset of the first byte of row r: the byte after the r-th newline.
RowStart(src, r) ==
    CHOOSE i \in 0..Len(src) :
        /\ Cardinality({j \in 0..(i - 1) : At(src, j) = "\n"}) = r
        /\ i = 0 \/ At(src, i - 1) = "\n"

\* The bytes of row r: from its first byte up to the newline that ends it,
\* or to the end of the buffer.
RowText(src, r) ==
    Slice(src, RowStart(src, r), RunUntil(src, RowStart(src, r), {"\n"}))

\* C20: for every row of the file that File.Lines lists, File.Lines holds
\* the offset of the row's first byte, and File.Line returns the bytes of
\* the row without its newline and does not panic, an empty row included.
C20_LineIsExact ==
    \A r \in 0..(Len(getLines(file)) - 1) :
        /\ getLines(file)[r + 1] = RowStart(file, r)
        /\ Line(file, r).ok
        /\ Line(file, r).str = RowText(file, r)

\* The end of the maximal run of digits and '.' that starts at offset from.
NumberRunEnd(from) == RunWhile(file, from, NumChars \cup {"."})

\* The number of '.' in the run that starts at offset from.
NumberRunDots(from) ==
    Cardinality({j \in from..(NumberRunEnd(from) - 1) : At(file, j) = "."})

\* The token is one Scan began at a digit.
StartsNumber(tok) ==
    /\ ~tok.Eof
    /\ tok.Pos.Offset < Len(file)
    /\ isNum(At(file, tok.Pos.Offset))

TokIndex(t) ==
    CHOOSE i \in 1..Len(p.toks) :
        ~p.toks[i].Eof /\ p.toks[i].Pos.Offset = t.Pos.Offset

\* The indices of the first and of the last token of an expression.
RECURSIVE ExprFirst(_)
ExprFirst(e) ==
    IF e.kind = "Call" THEN ExprFirst(e.Callee) ELSE TokIndex(e.T)

ExprLast(e) == IF e.kind = "Call" THEN TokIndex(e.RParen) ELSE TokIndex(e.T)

\* The expressions of the Return and ExprStmt statements of a statement
\* list, those of nested blocks included.
RECURSIVE ExprsOf(_)
ExprsOf(stmts) ==
    IF stmts = <<>> THEN {}
    ELSE LET st == Head(stmts)
         IN (IF st.kind = "Block" THEN ExprsOf(st.Stmts)
             ELSE IF st.kind \in {"Return", "ExprStmt"} /\ ~IsNil(st.E)
                  THEN {st.E} ELSE {})
            \cup ExprsOf(Tail(stmts))

\* The expression is an atom, or a Call whose callee ends right before its
\* left parenthesis and whose Args are the comma-separated expressions
\* between its parentheses, each of them of that form as well.
RECURSIVE CallShape(_)
CallShape(e) ==
    IF IsNil(e) THEN FALSE
    ELSE IF e.kind # "Call" THEN e.kind \in {"Ident", "Literal"}
    ELSE /\ CallShape(e.Callee)
         /\ e.LParen.Type = "LPAREN"
         /\ e.RParen.Type = "RPAREN"
         /\ TokIndex(e.LParen) = ExprLast(e.Callee) + 1
         /\ \A k \in 1..Len(e.Args) : CallShape(e.Args[k])
         /\ IF e.Args = <<>>
            THEN TokIndex(e.RParen) = TokIndex(e.LParen) + 1
            ELSE /\ ExprFirst(e.Args[1]) = TokIndex(e.LParen) + 1
                 /\ \A k \in 1..(Len(e.Args) - 1) :
                       /\ p.toks[ExprLast(e.Args[k]) + 1].Type = "COMMA"
                       /\ ExprFirst(e.Args[k + 1]) = ExprLast(e.Args[k]) + 2
                 /\ TokIndex(e.RParen) = ExprLast(e.Args[Len(e.Args)]) + 1

\* The number of argument lists of a chain of calls.
RECURSIVE ChainLength(_)
ChainLength(e) == IF e.kind = "Call" THEN 1 + ChainLength(e.Callee) ELSE 0

\* The expressions of the statements of all functions of the tree.
TreeExprs ==
    UNION {ExprsOf(nodes[i].Block.Stmts) : i \in 1..Len(nodes)}

RECURSIVE IdentNamesOf(_)
IdentNamesOf(e) ==
    IF IsNil(e) THEN {}
    ELSE IF e.kind = "Ident" THEN {e.Name}
    ELSE IF e.kind = "Call"
         THEN IdentNamesOf(e.Callee)
                 \cup UNION {IdentNamesOf(e.Args[k]) : k \in 1..Len(e.Args)}
    ELSE {}

\* The names of all identifier expressions of the tree.
TreeIdentNames == UNION {IdentNamesOf(e) : e \in TreeExprs}

\* C23: once Check has walked the tree, a symbol whose name no identifier
\* expression of the tree has (so that no expression can have resolved to
\* it) has RefCount 0.
C23_UnusedHasRefCountZero ==
    (pc = "Check" /\ walk > Len(nodes) /\ ~c.crashed) =>
        \A sc \in 1..Len(c.table.scopes) :
            \A n \in DOMAIN c.table.scopes[sc].symbols :
                n \notin TreeIdentNames =>
                    c.table.scopes[sc].symbols[n].RefCount = 0

(***************************************************************************)
(* Properties of declarations                                              *)
(***************************************************************************)
\* The indices of the pub tokens that the token func does not follow.
PubWithoutFunc ==
    {i \in 1..(Len(p.toks) - 1) :
        p.toks[i].Type = "PUB" /\ p.toks[i + 1].Type # "FUNC"}

\* C24: once Parse has completed on tokens in which a pub token is not
\* immediately followed by func, it has recorded a syntax error.
C24_PubNeedsFunc ==
    (ParseCompleted /\ PubWithoutFunc # {}) => p.NumErrors > 0

\* Files whose function body is a return without expression on one line and
\* a well-formed statement on the next.
BareReturnPrograms ==
    {FuncText(FALSE, <<"f">>, <<>>, rt,
              Lines(<<(<<"r","e","t","u","r","n">>), st>>)) :
        rt \in BodyRetTypes, st \in GoodStmts}

\* C25: a block whose first line is a return without expression and whose
\* second line is another statement parses without a diagnostic, and the
\* block's Stmts are the Return, with no expression, and then the statement
\* of the second line.
C25_BareReturnThenStmt ==
    (ParseCompleted /\ file \in BareReturnPrograms) =>
        /\ p.NumErrors = 0
        /\ Len(nodes) = 1
        /\ ~IsNil(nodes[1].Block)
        /\ Len(nodes[1].Block.Stmts) = 2
        /\ nodes[1].Block.Stmts[1].kind = "Return"
        /\ IsNil(nodes[1].Block.Stmts[1].E)
        /\ nodes[1].Block.Stmts[2].kind \in {"Return", "ExprStmt"}

(***************************************************************************)
(* Properties of Check                                                     *)
(***************************************************************************)
\* C26: on the tree of an error-free parse Check does not panic, whatever
\* expression follows a return.
C26_CheckNeverPanics ==
    p.NumErrors = 0 => ~(pc = "panic" /\ c.crashed)

(***************************************************************************)
(* Properties of token positions and diagnostics                           *)
(***************************************************************************)
\* Every token ScanAll returned is on a row of File.Lines, and File.Lines
\* of that row is the token's LineBegin.
TokenRowsAreLines ==
    \A i \in 1..Len(toks) :
        /\ toks[i].Pos.Row < Len(getLines(file))
        /\ getLines(file)[toks[i].Pos.Row + 1] = toks[i].Pos.LineBegin

\* A block that is not closed in a source that ends with a newline:
\* func f() int {\n return 1\n
UnterminatedBlock ==
    <<"f","u","n","c"," ","f","(",")"," ","i","n","t"," ","{","\n"," ","r","e","t","u","r","n"," ","1","\n">>

\* C27: every token ScanAll has returned, the EOF token too, is on a row of
\* File.Lines whose entry is the token's LineBegin, and no stage panics on
\* the source with an unterminated block that ends with a newline, whose
\* diagnostic is rendered at the EOF token.
C27_TokenRowInLines ==
    /\ pc = "Tokenize" => TokenRowsAreLines
    /\ file = UnterminatedBlock => pc # "panic"

\* The tokens of the scan that are marked invalid.
InvalidTokens == {i \in 1..Len(toks) : toks[i].Invalid}

\* C28: when ScanAll has returned, the scanner's NumErrors, and the number
\* of diagnostics it has recorded, is the number of the tokens with
\* Invalid = TRUE.
C28_OneDiagnosticPerInvalidToken ==
    pc = "Tokenize" =>
        /\ s.NumErrors = Cardinality(InvalidTokens)
        /\ Len(s.errors) = Cardinality(InvalidTokens)

\* The kinds of the statements of the only function of the tree.
StmtKinds ==
    [i \in 1..Len(nodes[1].Block.Stmts) |-> nodes[1].Block.Stmts[i].kind]

\* Parse has completed without a diagnostic on a tree of one function with
\* two statements, the second of them a Return.
TwoStmtsParsed ==
    /\ p.NumErrors = 0
    /\ Len(nodes) = 1
    /\ ~IsNil(nodes[1].Block)
    /\ Len(StmtKinds) = 2
    /\ StmtKinds[2] = "Return"

\* C29: a block of two statements, one per line, parses without a
\* diagnostic into its two statements, and so does the same block with a
\* comment appended to the line of the first statement.
C29_TrailingComment ==
    /\ (ParseCompleted /\ file \in TwoStmtPrograms) => TwoStmtsParsed
    /\ (ParseCompleted /\ file \in CommentedPrograms) => TwoStmtsParsed

(***************************************************************************)
(* Termination of Parse                                                    *)
(***************************************************************************)
\* The iterations of the loop begun so far.
ItersOf(loop) == {i \in 1..Len(p.loops) : p.loops[i].loop = loop}

\* Every iteration of an inner loop began at a token, and at a later token
\* than every earlier iteration of that loop: an iteration that is followed
\* by another has consumed a token.
LoopProgress ==
    \A j \in 1..Len(p.loops) :
        /\ p.loops[j].pos < Len(p.toks)
        /\ \A i \in 1..(j - 1) :
              p.loops[i].loop = p.loops[j].loop =>
                  p.loops[i].pos < p.loops[j].pos

\* C30: every iteration of the declaration loop of Parse consumes a token
\* or leaves the loop, the parser never moves back, and every iteration of
\* the statement loop, the parameter loop and the two loops of parseCall
\* begins at a token later than the iterations of that loop before it, in
\* panic mode too: each loop runs at most once per token.
C30_ParseProgress ==
    /\ [][pc = "Parse" =>
             /\ p'.pos >= p.pos
             /\ pc' # "Parse" \/ p'.pos > p.pos]_vars
    /\ []LoopProgress

\* Parse has ended in panic mode after a second declaration, with
\* iterations of all four inner loops, iterations of the loops of parseCall
\* in panic mode among them, and several iterations of the statement loop.
C30_Witness ==
    /\ pc = "ParseDone"
    /\ p.panicMode
    /\ Len(nodes) = 2
    /\ ItersOf("params") # {}
    /\ Cardinality(ItersOf("block")) >= 2
    /\ \E i \in ItersOf("call") : p.loops[i].panic
    /\ Cardinality({i \in ItersOf("args") : p.loops[i].panic}) >= 2

=============================================================================
